---- MODULE Spec2Model ----
(***************************************************************************)
(* Smart Dictionary: the Unbalanced tree (bst.c), the Balanced tree        *)
(* (avl.c), the Threaded tree (tbt.c) and the prefix ranking engine        *)
(* (autocomplete.c), modelled over explicit heaps of nodes.                *)
(*                                                                         *)
(* A heap is a function from the addresses of the live (malloc'ed, not yet *)
(* freed) nodes to node records; NULL is address 0.  Strings are sequences *)
(* of ASCII codes.                                                         *)
(***************************************************************************)
EXTENDS Integers, Sequences, FiniteSets, TLC

\* ------------------------------------------------------------------------
\* Program constants
\* ------------------------------------------------------------------------
NULL == 0
MAX_WORD_LEN == 64
MAX_CANDIDATES == 512
FREQ_SCORE_DEFAULT == 1
TOP_K_DEFAULT == 10

\* ------------------------------------------------------------------------
\* Bounds of the model
\* ------------------------------------------------------------------------
\* number of data nodes each tree may hold in the interactive specification
MaxNodes == 4
\* number of keys, in the largest dictionary file, beyond MAX_CANDIDATES
Overflow == 1
\* number of times one key may be picked from the results
MaxSelections == 3

\* ------------------------------------------------------------------------
\* Strings (utils.c and the C library)
\* ------------------------------------------------------------------------
Min(a, b) == IF a < b THEN a ELSE b
Max(a, b) == IF a > b THEN a ELSE b

\* the byte at position i of a NUL-terminated string (1-based)
CharAt(s, i) == IF i <= Len(s) THEN s[i] ELSE 0

\* str_tolower that copies without lower-casing (mutant for C5)
str_tolower_keepcase(src, dst_size) ==
    [i \in 1..Min(Len(src), dst_size - 1) |-> src[i]]

\* utils.c str_tolower: ASCII-only lower-casing, truncated to dst_size - 1
str_tolower(src, dst_size) ==
    [i \in 1..Min(Len(src), dst_size - 1) |->
        IF src[i] >= 65 /\ src[i] <= 90 THEN src[i] + 32 ELSE src[i]]

\* utils.c str_safe_copy: copy truncated to dst_size - 1
str_safe_copy(src, dst_size) ==
    [i \in 1..Min(Len(src), dst_size - 1) |-> src[i]]

\* C strncmp: compare at most n bytes, stopping at the first difference or
\* at the terminating NUL
RECURSIVE strncmp_from(_, _, _, _)
strncmp_from(a, b, n, i) ==
    IF i > n THEN 0
    ELSE IF CharAt(a, i) # CharAt(b, i) THEN CharAt(a, i) - CharAt(b, i)
    ELSE IF CharAt(a, i) = 0 THEN 0
    ELSE strncmp_from(a, b, n, i + 1)

strncmp(a, b, n) == strncmp_from(a, b, n, 1)

\* C strcmp
strcmp(a, b) == strncmp(a, b, Max(Len(a), Len(b)) + 1)

strlen(s) == Len(s)

\* ------------------------------------------------------------------------
\* Records (dictionary.h)
\* ------------------------------------------------------------------------
WordRecord(w, m, p, f, s) ==
    [word |-> w, meaning |-> m, part_of_speech |-> p,
     frequency_score |-> f, user_select_count |-> s]

\* dictionary.c word_record_init
word_record_init == WordRecord(<<>>, "", "", FREQ_SCORE_DEFAULT, 0)

\* ------------------------------------------------------------------------
\* Heaps
\* ------------------------------------------------------------------------
\* malloc: an address that is not live (the lowest one)
Malloc(heap) ==
    CHOOSE a \in 1..(Cardinality(DOMAIN heap) + 1) :
        /\ a \notin DOMAIN heap
        /\ \A b \in 1..(a - 1) : b \in DOMAIN heap

\* the heap with node n stored at the fresh address a
Alloc(heap, a, n) == (a :> n) @@ heap

\* free(a)
Free(heap, a) == [x \in (DOMAIN heap) \ {a} |-> heap[x]]

\* A run of frees (bst_free, avl_free, tbt_free_nodes) is followed on the memory as it was when the run
\* began (mem: free does not erase a node), with the set of nodes still
\* live, the addresses passed to free in order, whether a node was read
\* after it was freed (stale) and whether an address was passed to free
\* when it was not live (again).
FreeRun(heap) ==
    [mem |-> heap, live |-> DOMAIN heap, freed |-> <<>>, stale |-> FALSE,
     again |-> FALSE]

\* the step free(cur) of a run
Freed(run, cur) ==
    [run EXCEPT !.live = @ \ {cur},
                !.freed = Append(@, cur),
                !.again = @ \/ cur \notin run.live]

\* the step that reads the nodes in reads
Read(run, reads) ==
    [run EXCEPT !.stale = @ \/ ~(reads \subseteq run.live)]

\* the heap a run leaves
Released(run) == [x \in run.live |-> run.mem[x]]

\* what is recorded of a run: how many addresses it passed to free, header
\* among them or not, and its two flags
Recorded(run, header) ==
    [freed |-> Len(run.freed), stale |-> run.stale, again |-> run.again,
     header |-> \E i \in 1..Len(run.freed) : run.freed[i] = header]

NoRun == [freed |-> 0, stale |-> FALSE, again |-> FALSE, header |-> FALSE]

\* The program never inspects an address, it only follows pointers and
\* compares them for equality, so its behaviour does not depend on which
\* addresses malloc hands out.  The heaps are therefore kept up to a renaming
\* of addresses: after an operation the live nodes are renumbered 1, 2, ...
\* in the order given by a traversal from the root, the nodes that cannot be
\* reached last (by ascending old address).  DANGLING stands for a pointer
\* to a node that is not live.
DANGLING == -1

RECURSIVE AscendingSeq(_)
AscendingSeq(S) ==
    IF S = {} THEN <<>>
    ELSE LET m == CHOOSE x \in S : \A y \in S : x <= y
         IN  <<m>> \o AscendingSeq(S \ {m})

SeqRange(q) == {q[i] : i \in 1..Len(q)}

\* the new address of the old address a, given the old addresses in order
NewAddr(order, a) ==
    IF a = NULL THEN NULL
    ELSE IF a \in SeqRange(order)
    THEN CHOOSE i \in 1..Len(order) : order[i] = a
    ELSE DANGLING

\* the traversal order followed by the unreachable live nodes
WithUnreached(heap, reached) ==
    reached \o AscendingSeq((DOMAIN heap) \ SeqRange(reached))

Renumber(heap, order) ==
    [i \in 1..Len(order) |->
        [heap[order[i]] EXCEPT !.left = NewAddr(order, @),
                               !.right = NewAddr(order, @)]]

\* ------------------------------------------------------------------------
\* Unbalanced tree (bst.c).  A tree is [root, heap]; a BSTNode** cursor is a
\* slot: the root variable (node = NULL) or the left/right field of a node.
\* ------------------------------------------------------------------------
RootSlot == [node |-> NULL, side |-> "root"]
FieldSlot(p, s) == [node |-> p, side |-> s]

Deref(t, s) == IF s.node = NULL THEN t.root ELSE t.heap[s.node][s.side]
Store(t, s, v) ==
    IF s.node = NULL THEN [t EXCEPT !.root = v]
    ELSE [t EXCEPT !.heap[s.node][s.side] = v]

\* bst_min_node that forgets to walk left (mutant for C1)
bst_min_node_noleft(heap, node) == node

RECURSIVE bst_min_node(_, _)
bst_min_node(heap, node) ==
    IF node # NULL /\ heap[node].left # NULL
    THEN bst_min_node(heap, heap[node].left)
    ELSE node

RECURSIVE bst_delete_nocopy(_, _, _)
\* bst_delete_impl that, at a node with two children, removes the in-order
\* successor without copying its record into the node (mutant for C7)
bst_delete_nocopy(t, root, lw) ==
    LET p == Deref(t, root) IN
    IF p = NULL THEN t
    ELSE
    LET cmp == strcmp(lw, t.heap[p].data.word) IN
    IF cmp < 0 THEN bst_delete_nocopy(t, FieldSlot(p, "left"), lw)
    ELSE IF cmp > 0 THEN bst_delete_nocopy(t, FieldSlot(p, "right"), lw)
    ELSE IF t.heap[p].left = NULL /\ t.heap[p].right = NULL THEN
        LET t1 == [t EXCEPT !.heap = Free(t.heap, p)]
        IN  Store(t1, root, NULL)
    ELSE IF t.heap[p].left = NULL THEN
        LET t1 == Store(t, root, t.heap[p].right)
        IN  [t1 EXCEPT !.heap = Free(t1.heap, p)]
    ELSE IF t.heap[p].right = NULL THEN
        LET t1 == Store(t, root, t.heap[p].left)
        IN  [t1 EXCEPT !.heap = Free(t1.heap, p)]
    ELSE
        LET succ == bst_min_node(t.heap, t.heap[p].right)
        IN  bst_delete_nocopy(t, FieldSlot(p, "right"), t.heap[succ].data.word)

RECURSIVE bst_delete_impl(_, _, _)
bst_delete_impl(t, root, lw) ==
    LET p == Deref(t, root) IN
    IF p = NULL THEN t
    ELSE
    LET cmp == strcmp(lw, t.heap[p].data.word) IN
    IF cmp < 0 THEN bst_delete_impl(t, FieldSlot(p, "left"), lw)
    ELSE IF cmp > 0 THEN bst_delete_impl(t, FieldSlot(p, "right"), lw)
    ELSE IF t.heap[p].left = NULL /\ t.heap[p].right = NULL THEN
        LET t1 == [t EXCEPT !.heap = Free(t.heap, p)]
        IN  Store(t1, root, NULL)
    ELSE IF t.heap[p].left = NULL THEN
        LET t1 == Store(t, root, t.heap[p].right)
        IN  [t1 EXCEPT !.heap = Free(t1.heap, p)]
    ELSE IF t.heap[p].right = NULL THEN
        LET t1 == Store(t, root, t.heap[p].left)
        IN  [t1 EXCEPT !.heap = Free(t1.heap, p)]
    ELSE
        LET succ == bst_min_node(t.heap, t.heap[p].right)
            t1 == [t EXCEPT !.heap[p].data = t.heap[succ].data]
        IN  bst_delete_impl(t1, FieldSlot(p, "right"), t1.heap[succ].data.word)

bst_new_node(rec) == [data |-> rec, left |-> NULL, right |-> NULL]

RECURSIVE bst_insert_overwrite(_, _, _)
\* bst_insert's loop that overwrites the record of a key already stored
\* (mutant for C8)
bst_insert_overwrite(t, cur, norm) ==
    LET p == Deref(t, cur) IN
    IF p = NULL THEN
        LET a == Malloc(t.heap)
            t1 == [t EXCEPT !.heap = Alloc(t.heap, a, bst_new_node(norm))]
        IN  Store(t1, cur, a)
    ELSE
    LET cmp == strcmp(norm.word, t.heap[p].data.word) IN
    IF cmp < 0 THEN bst_insert_overwrite(t, FieldSlot(p, "left"), norm)
    ELSE IF cmp > 0 THEN bst_insert_overwrite(t, FieldSlot(p, "right"), norm)
    ELSE [t EXCEPT !.heap[p].data = norm]

RECURSIVE bst_insert_loop(_, _, _)
bst_insert_loop(t, cur, norm) ==
    LET p == Deref(t, cur) IN
    IF p = NULL THEN
        LET a == Malloc(t.heap)
            t1 == [t EXCEPT !.heap = Alloc(t.heap, a, bst_new_node(norm))]
        IN  Store(t1, cur, a)
    ELSE
    LET cmp == strcmp(norm.word, t.heap[p].data.word) IN
    IF cmp < 0 THEN bst_insert_loop(t, FieldSlot(p, "left"), norm)
    ELSE IF cmp > 0 THEN bst_insert_loop(t, FieldSlot(p, "right"), norm)
    ELSE t

bst_insert(t, rec) ==
    LET norm == [rec EXCEPT !.word = str_tolower(rec.word, MAX_WORD_LEN)]
    IN  bst_insert_loop(t, RootSlot, norm)

\* bst_insert when malloc returns NULL: bst_new_node prints a message and
\* returns NULL, which bst_insert stores in the link it has reached; failed
\* tells whether malloc was called
RECURSIVE bst_insert_loop_nomem(_, _, _)
bst_insert_loop_nomem(t, cur, norm) ==
    LET p == Deref(t, cur) IN
    IF p = NULL THEN [tree |-> Store(t, cur, NULL), failed |-> TRUE]
    ELSE
    LET cmp == strcmp(norm.word, t.heap[p].data.word) IN
    IF cmp < 0 THEN bst_insert_loop_nomem(t, FieldSlot(p, "left"), norm)
    ELSE IF cmp > 0 THEN bst_insert_loop_nomem(t, FieldSlot(p, "right"), norm)
    ELSE [tree |-> t, failed |-> FALSE]

bst_insert_nomem(t, rec) ==
    LET norm == [rec EXCEPT !.word = str_tolower(rec.word, MAX_WORD_LEN)]
    IN  bst_insert_loop_nomem(t, RootSlot, norm)

RECURSIVE bst_search_loop(_, _, _)
bst_search_loop(heap, root, lw) ==
    IF root = NULL THEN NULL
    ELSE
    LET cmp == strcmp(lw, heap[root].data.word) IN
    IF cmp = 0 THEN root
    ELSE IF cmp < 0 THEN bst_search_loop(heap, heap[root].left, lw)
    ELSE bst_search_loop(heap, heap[root].right, lw)

\* bst_search that compares the word as typed (mutant for C6)
bst_search_exact(t, word) == bst_search_loop(t.heap, t.root, word)

bst_search(t, word) ==
    bst_search_loop(t.heap, t.root, str_tolower(word, MAX_WORD_LEN))

bst_delete(t, word) ==
    bst_delete_impl(t, RootSlot, str_tolower(word, MAX_WORD_LEN))

\* bst_free's loop without the rotation: a node is freed and the loop moves
\* right, whatever hangs on the left (mutant for C18)
RECURSIVE bst_free_loop_norotate(_, _)
bst_free_loop_norotate(run, cur) ==
    IF cur = NULL THEN run
    ELSE bst_free_loop_norotate(Freed(Read(run, {cur}), cur),
                                run.mem[cur].right)

\* bst_free's loop: a node with a left child is rotated right, a node with
\* none is freed and the loop moves to its right child
RECURSIVE bst_free_loop(_, _)
bst_free_loop(run, cur) ==
    IF cur = NULL THEN run
    ELSE IF run.mem[cur].left # NULL THEN
        LET tmp == run.mem[cur].left
            r1  == Read(run, {cur, tmp})
        IN  bst_free_loop(
                [r1 EXCEPT !.mem[cur].left = run.mem[tmp].right,
                           !.mem[tmp].right = cur],
                tmp)
    ELSE bst_free_loop(Freed(Read(run, {cur}), cur), run.mem[cur].right)

\* bst_free on a tree [root, heap]: every node freed, *root = NULL
bst_free(t) ==
    LET run == bst_free_loop(FreeRun(t.heap), t.root)
    IN  [root |-> NULL, heap |-> Released(run), run |-> run]

\* the inner loop left out: the left child itself is taken for the in-order
\* predecessor (mutant for C28)
morris_pre_nodescent(heap, pre, cur) == pre

\* the inner loop of the Morris traversals: the rightmost node of cur's left
\* subtree, stopping at a temporary thread back to cur
RECURSIVE morris_pre(_, _, _)
morris_pre(heap, pre, cur) ==
    IF heap[pre].right # NULL /\ heap[pre].right # cur
    THEN morris_pre(heap, heap[pre].right, cur)
    ELSE pre

\* A Morris traversal in progress: the heap with the temporary threads it
\* has made so far, the cursor, the nodes passed to the callback (out), the
\* heap as the callback found it at each call (at) and the counter.
Traversal(t) ==
    [heap |-> t.heap, cur |-> t.root, out |-> <<>>, at |-> <<>>, count |-> 0]

\* the callback is called with node n
Callback(s, n) ==
    [s EXCEPT !.out = Append(@, n), !.at = Append(@, s.heap)]

\* the iterations that a Morris traversal of t is given in the model: every
\* node is the cursor at most twice
MorrisFuel(t) == 2 * Cardinality(DOMAIN t.heap) + 1

\* one iteration of bst_inorder's while (cur) loop
bst_inorder_step(s) ==
    LET cur == s.cur IN
    IF s.heap[cur].left = NULL THEN
        [Callback(s, cur) EXCEPT !.cur = s.heap[cur].right]
    ELSE
        LET pre == morris_pre(s.heap, s.heap[cur].left, cur) IN
        IF s.heap[pre].right = NULL THEN
            [s EXCEPT !.heap[pre].right = cur, !.cur = s.heap[cur].left]
        ELSE
            [Callback([s EXCEPT !.heap[pre].right = NULL], cur)
                EXCEPT !.cur = s.heap[cur].right]

\* at most n iterations of the loop: those of the first half, then, from the
\* traversal u they leave, those of the second
RECURSIVE bst_inorder_loop(_, _)
bst_inorder_loop(s, n) ==
    IF s.cur = NULL \/ n = 0 THEN s
    ELSE IF n = 1 THEN bst_inorder_step(s)
    ELSE CHOOSE r \in {bst_inorder_loop(u, n - n \div 2) :
                          u \in {bst_inorder_loop(s, n \div 2)}} : TRUE

\* bst_inorder with a callback that looks at the node and the tree: yields
\* the heap as the traversal leaves it, the nodes visited and what each call
\* found (cur is NULL when the loop has ended)
bst_inorder(t) == bst_inorder_loop(Traversal(t), MorrisFuel(t))

\* one iteration of bst_preorder's while (cur) loop
bst_preorder_step(s) ==
    LET cur == s.cur IN
    IF s.heap[cur].left = NULL THEN
        [Callback(s, cur) EXCEPT !.cur = s.heap[cur].right]
    ELSE
        LET pre == morris_pre(s.heap, s.heap[cur].left, cur) IN
        IF s.heap[pre].right = NULL THEN
            [Callback([s EXCEPT !.heap[pre].right = cur], cur)
                EXCEPT !.cur = s.heap[cur].left]
        ELSE
            [s EXCEPT !.heap[pre].right = NULL, !.cur = s.heap[cur].right]

RECURSIVE bst_preorder_loop(_, _)
bst_preorder_loop(s, n) ==
    IF s.cur = NULL \/ n = 0 THEN s
    ELSE IF n = 1 THEN bst_preorder_step(s)
    ELSE CHOOSE r \in {bst_preorder_loop(u, n - n \div 2) :
                          u \in {bst_preorder_loop(s, n \div 2)}} : TRUE

bst_preorder(t) == bst_preorder_loop(Traversal(t), MorrisFuel(t))

\* one iteration of bst_count's loop that leaves the thread in place when it
\* comes back to it (mutant for C26)
bst_count_step_keepthread(s) ==
    LET cur == s.cur IN
    IF s.heap[cur].left = NULL THEN
        [s EXCEPT !.count = @ + 1, !.cur = s.heap[cur].right]
    ELSE
        LET pre == morris_pre(s.heap, s.heap[cur].left, cur) IN
        IF s.heap[pre].right = NULL THEN
            [s EXCEPT !.heap[pre].right = cur, !.cur = s.heap[cur].left]
        ELSE
            [s EXCEPT !.count = @ + 1, !.cur = s.heap[cur].right]

\* one iteration of bst_count's loop: the same Morris walk with a counter
bst_count_step(s) ==
    LET cur == s.cur IN
    IF s.heap[cur].left = NULL THEN
        [s EXCEPT !.count = @ + 1, !.cur = s.heap[cur].right]
    ELSE
        LET pre == morris_pre(s.heap, s.heap[cur].left, cur) IN
        IF s.heap[pre].right = NULL THEN
            [s EXCEPT !.heap[pre].right = cur, !.cur = s.heap[cur].left]
        ELSE
            [s EXCEPT !.heap[pre].right = NULL, !.count = @ + 1,
                      !.cur = s.heap[cur].right]

RECURSIVE bst_count_loop(_, _)
bst_count_loop(s, n) ==
    IF s.cur = NULL \/ n = 0 THEN s
    ELSE IF n = 1 THEN bst_count_step(s)
    ELSE CHOOSE r \in {bst_count_loop(u, n - n \div 2) :
                          u \in {bst_count_loop(s, n \div 2)}} : TRUE

\* the traversal that bst_count makes of t
bst_count_run(t) == bst_count_loop(Traversal(t), MorrisFuel(t))

bst_count(t) == bst_count_run(t).count

\* the number of elements of bst_height's array stk
stk_slots == 128

\* bst_height after its first push: the entries stk[0..top-1] as a sequence
\* of (node, depth), max_d, the highest index written so far and whether a
\* write went beyond the last element of stk
HeightRun(t) ==
    [heap |-> t.heap, stk |-> <<[n |-> t.root, d |-> 1]>>, max_d |-> 0,
     top |-> 0, outside |-> FALSE]

\* one iteration of bst_height's loop: pop, update max_d, push the right
\* child and then the left child
bst_height_step(s) ==
    LET top == Len(s.stk)
        n == s.stk[top].n
        d == s.stk[top].d
        popped == SubSeq(s.stk, 1, top - 1)
        r == s.heap[n].right
        l == s.heap[n].left
        s1 == IF r # NULL THEN Append(popped, [n |-> r, d |-> d + 1])
              ELSE popped
        s2 == IF l # NULL THEN Append(s1, [n |-> l, d |-> d + 1]) ELSE s1
        written == IF Len(s2) > Len(popped) THEN Len(s2) - 1 ELSE 0
    IN  [s EXCEPT !.stk = s2,
                  !.max_d = Max(@, d),
                  !.top = Max(@, written),
                  !.outside = @ \/ written >= stk_slots]

\* the loop of bst_height, n iterations of it at most
RECURSIVE bst_height_loop(_, _)
bst_height_loop(s, n) ==
    IF s.stk = <<>> \/ n = 0 THEN s
    ELSE IF n = 1 THEN bst_height_step(s)
    ELSE CHOOSE r \in {bst_height_loop(u, n - n \div 2) :
                          u \in {bst_height_loop(s, n \div 2)}} : TRUE

\* bst_height(root) with the array as long as the run needs: every node is
\* popped once
bst_height(t) ==
    IF t.root = NULL
    THEN [heap |-> t.heap, stk |-> <<>>, max_d |-> 0, top |-> 0,
          outside |-> FALSE]
    ELSE bst_height_loop(HeightRun(t), Cardinality(DOMAIN t.heap))

\* what a call of bst_height can do.  A write beyond stk[127] is undefined:
\* the call can return the height, return another value, or not return.
HeightOutcomes(run) ==
    IF run.outside
    THEN {[ret |-> v, top |-> run.top, outside |-> TRUE, crashed |-> c] :
             v \in {run.max_d, 0}, c \in BOOLEAN}
    ELSE {[ret |-> run.max_d, top |-> run.top, outside |-> FALSE,
           crashed |-> FALSE]}

\* ------------------------------------------------------------------------
\* Balanced tree (avl.c).  The functions take the heap and a node pointer
\* and yield the heap they leave and the pointer they return.
\* ------------------------------------------------------------------------
max_int(a, b) == IF a > b THEN a ELSE b

avl_height(heap, node) == IF node # NULL THEN heap[node].height ELSE 0

avl_balance_factor(heap, node) ==
    IF node # NULL
    THEN avl_height(heap, heap[node].left) - avl_height(heap, heap[node].right)
    ELSE 0

update_height(heap, n) ==
    [heap EXCEPT ![n].height =
        1 + max_int(avl_height(heap, heap[n].left),
                    avl_height(heap, heap[n].right))]

\* rotate_right with the two updates in the other order: the new subtree
\* root x is measured before y, its new child (mutant for C23)
rotate_right_rootfirst(heap, y) ==
    LET x  == heap[y].left
        T2 == heap[x].right
        h1 == [heap EXCEPT ![x].right = y, ![y].left = T2]
        h2 == update_height(h1, x)
        h3 == update_height(h2, y)
    IN  [heap |-> h3, ret |-> x]

rotate_right(heap, y) ==
    LET x  == heap[y].left
        T2 == heap[x].right
        h1 == [heap EXCEPT ![x].right = y, ![y].left = T2]
        h2 == update_height(h1, y)
        h3 == update_height(h2, x)
    IN  [heap |-> h3, ret |-> x]

rotate_left(heap, x) ==
    LET y  == heap[x].right
        T2 == heap[y].left
        h1 == [heap EXCEPT ![y].left = x, ![x].right = T2]
        h2 == update_height(h1, x)
        h3 == update_height(h2, y)
    IN  [heap |-> h3, ret |-> y]

\* rebalance that never rotates (mutant for C15)
rebalance_norotate(heap, node) == [heap |-> heap, ret |-> node]

rebalance(heap, node) ==
    LET bf == avl_balance_factor(heap, node) IN
    IF bf > 1 /\ avl_balance_factor(heap, heap[node].left) >= 0 THEN
        rotate_right(heap, node)
    ELSE IF bf > 1 /\ avl_balance_factor(heap, heap[node].left) < 0 THEN
        LET r == rotate_left(heap, heap[node].left)
        IN  rotate_right([r.heap EXCEPT ![node].left = r.ret], node)
    ELSE IF bf < -1 /\ avl_balance_factor(heap, heap[node].right) <= 0 THEN
        rotate_left(heap, node)
    ELSE IF bf < -1 /\ avl_balance_factor(heap, heap[node].right) > 0 THEN
        LET r == rotate_right(heap, heap[node].right)
        IN  rotate_left([r.heap EXCEPT ![node].right = r.ret], node)
    ELSE [heap |-> heap, ret |-> node]

RECURSIVE avl_min_node(_, _)
avl_min_node(heap, n) ==
    IF heap[n].left # NULL THEN avl_min_node(heap, heap[n].left) ELSE n

avl_new_node(rec) ==
    [data |-> rec, left |-> NULL, right |-> NULL, height |-> 1]

RECURSIVE avl_insert_impl(_, _, _)
avl_insert_impl(heap, root, rec) ==
    IF root = NULL THEN
        LET a == Malloc(heap)
        IN  [heap |-> Alloc(heap, a, avl_new_node(rec)), ret |-> a]
    ELSE
    LET cmp == strcmp(rec.word, heap[root].data.word) IN
    IF cmp < 0 THEN
        LET r  == avl_insert_impl(heap, heap[root].left, rec)
            h1 == [r.heap EXCEPT ![root].left = r.ret]
        IN  rebalance(update_height(h1, root), root)
    ELSE IF cmp > 0 THEN
        LET r  == avl_insert_impl(heap, heap[root].right, rec)
            h1 == [r.heap EXCEPT ![root].right = r.ret]
        IN  rebalance(update_height(h1, root), root)
    ELSE [heap |-> heap, ret |-> root]

RECURSIVE avl_delete_impl(_, _, _)
\* avl_delete_impl that returns from the two-children case without
\* rebalancing (mutant for C2)
avl_delete_impl_norebalance(heap, root, word) ==
    IF root = NULL THEN [heap |-> heap, ret |-> NULL]
    ELSE
    LET cmp == strcmp(word, heap[root].data.word) IN
    IF cmp < 0 THEN
        LET r  == avl_delete_impl(heap, heap[root].left, word)
            h1 == [r.heap EXCEPT ![root].left = r.ret]
        IN  rebalance(update_height(h1, root), root)
    ELSE IF cmp > 0 THEN
        LET r  == avl_delete_impl(heap, heap[root].right, word)
            h1 == [r.heap EXCEPT ![root].right = r.ret]
        IN  rebalance(update_height(h1, root), root)
    ELSE IF heap[root].left = NULL \/ heap[root].right = NULL THEN
        LET child == IF heap[root].left # NULL THEN heap[root].left
                     ELSE heap[root].right
        IN  [heap |-> Free(heap, root), ret |-> child]
    ELSE
        LET succ == avl_min_node(heap, heap[root].right)
            h1 == [heap EXCEPT ![root].data = heap[succ].data]
            r  == avl_delete_impl(h1, h1[root].right, h1[succ].data.word)
            h2 == [r.heap EXCEPT ![root].right = r.ret]
        IN  [heap |-> update_height(h2, root), ret |-> root]

avl_delete_impl(heap, root, word) ==
    IF root = NULL THEN [heap |-> heap, ret |-> NULL]
    ELSE
    LET cmp == strcmp(word, heap[root].data.word) IN
    IF cmp < 0 THEN
        LET r  == avl_delete_impl(heap, heap[root].left, word)
            h1 == [r.heap EXCEPT ![root].left = r.ret]
        IN  rebalance(update_height(h1, root), root)
    ELSE IF cmp > 0 THEN
        LET r  == avl_delete_impl(heap, heap[root].right, word)
            h1 == [r.heap EXCEPT ![root].right = r.ret]
        IN  rebalance(update_height(h1, root), root)
    ELSE IF heap[root].left = NULL \/ heap[root].right = NULL THEN
        LET child == IF heap[root].left # NULL THEN heap[root].left
                     ELSE heap[root].right
        IN  [heap |-> Free(heap, root), ret |-> child]
    ELSE
        LET succ == avl_min_node(heap, heap[root].right)
            h1 == [heap EXCEPT ![root].data = heap[succ].data]
            r  == avl_delete_impl(h1, h1[root].right, h1[succ].data.word)
            h2 == [r.heap EXCEPT ![root].right = r.ret]
        IN  rebalance(update_height(h2, root), root)

RECURSIVE avl_search_impl(_, _, _)
avl_search_impl(heap, root, word) ==
    IF root = NULL THEN NULL
    ELSE
    LET cmp == strcmp(word, heap[root].data.word) IN
    IF cmp < 0 THEN avl_search_impl(heap, heap[root].left, word)
    ELSE IF cmp > 0 THEN avl_search_impl(heap, heap[root].right, word)
    ELSE root

\* avl_insert that hands back the tree in other nodes: every record has
\* moved to the next address (mutant for C27)
avl_insert_moved(t, rec) ==
    LET buf == str_tolower(rec.word, MAX_WORD_LEN)
        r   == [rec EXCEPT !.word = str_safe_copy(buf, MAX_WORD_LEN)]
        res == avl_insert_impl(t.heap, t.root, r)
        To(a) == IF a = NULL THEN NULL ELSE a + 1
    IN  [root |-> To(res.ret),
         heap |-> [a \in {To(x) : x \in DOMAIN res.heap} |->
                      [res.heap[a - 1] EXCEPT !.left = To(@), !.right = To(@)]]]

\* avl_insert / avl_delete on a tree [root, heap]: the caller stores the
\* returned pointer in its root variable (g_avl_root = avl_insert(...))
avl_insert(t, rec) ==
    LET buf == str_tolower(rec.word, MAX_WORD_LEN)
        r   == [rec EXCEPT !.word = str_safe_copy(buf, MAX_WORD_LEN)]
        res == avl_insert_impl(t.heap, t.root, r)
    IN  [root |-> res.ret, heap |-> res.heap]

\* avl_insert when malloc returns NULL: avl_new_node, reached when the
\* descent arrives at a NULL link, calls exit(EXIT_FAILURE); a key already
\* stored is found before any allocation
RECURSIVE avl_insert_impl_nomem(_, _, _)
avl_insert_impl_nomem(heap, root, rec) ==
    IF root = NULL THEN [heap |-> heap, ret |-> NULL, exit |-> TRUE]
    ELSE
    LET cmp == strcmp(rec.word, heap[root].data.word) IN
    IF cmp < 0 THEN avl_insert_impl_nomem(heap, heap[root].left, rec)
    ELSE IF cmp > 0 THEN avl_insert_impl_nomem(heap, heap[root].right, rec)
    ELSE [heap |-> heap, ret |-> root, exit |-> FALSE]

avl_insert_nomem(t, rec) ==
    LET buf == str_tolower(rec.word, MAX_WORD_LEN)
        r   == [rec EXCEPT !.word = str_safe_copy(buf, MAX_WORD_LEN)]
    IN  [tree |-> t, exit |-> avl_insert_impl_nomem(t.heap, t.root, r).exit]

avl_search(t, word) ==
    avl_search_impl(t.heap, t.root, str_tolower(word, MAX_WORD_LEN))

avl_delete(t, word) ==
    LET res == avl_delete_impl(t.heap, t.root, str_tolower(word, MAX_WORD_LEN))
    IN  [root |-> res.ret, heap |-> res.heap]

\* avl_free(&slot) for the subtree at root: the left subtree, the right
\* subtree, then the node; each recursive call ends by writing NULL into the
\* link it was given, a field of the node root
RECURSIVE avl_free_rec(_, _)
avl_free_rec(run, root) ==
    IF root = NULL THEN run
    ELSE
    LET l  == avl_free_rec(Read(run, {root}), run.mem[root].left)
        l1 == IF run.mem[root].left = NULL THEN l
              ELSE [Read(l, {root}) EXCEPT !.mem[root].left = NULL]
        r  == avl_free_rec(Read(l1, {root}), l1.mem[root].right)
        r1 == IF l1.mem[root].right = NULL THEN r
              ELSE [Read(r, {root}) EXCEPT !.mem[root].right = NULL]
    IN  Freed(r1, root)

\* avl_free on a tree [root, heap]; *root = NULL when the tree is not empty
avl_free(t) ==
    LET run == avl_free_rec(FreeRun(t.heap), t.root)
    IN  [root |-> NULL, heap |-> Released(run), run |-> run]

RECURSIVE avl_inorder_rec(_, _)
avl_inorder_rec(heap, root) ==
    IF root = NULL THEN <<>>
    ELSE avl_inorder_rec(heap, heap[root].left) \o <<root>>
         \o avl_inorder_rec(heap, heap[root].right)

avl_inorder(t) == avl_inorder_rec(t.heap, t.root)

RECURSIVE avl_count_rec(_, _)
avl_count_rec(heap, root) ==
    IF root # NULL
    THEN 1 + avl_count_rec(heap, heap[root].left)
           + avl_count_rec(heap, heap[root].right)
    ELSE 0

avl_count(t) == avl_count_rec(t.heap, t.root)

\* ------------------------------------------------------------------------
\* Threaded tree (tbt.c).  A tree is [header, heap]; the header is a node of
\* the heap.
\* ------------------------------------------------------------------------
tbt_header_node ==
    [data |-> word_record_init, left |-> NULL, right |-> NULL,
     lthread |-> 1, rthread |-> 1]

\* tbt_create_header on a heap: the new heap and the header's address
tbt_create_header(heap) ==
    LET h == Malloc(heap)
    IN  [heap |-> Alloc(heap, h, [tbt_header_node EXCEPT !.left = h, !.right = h]),
         ret |-> h]

tbt_new_node(rec) ==
    [data |-> rec, left |-> NULL, right |-> NULL, lthread |-> 1, rthread |-> 1]

\* the real left / right child, or NULL when the link is a thread
tbt_left_child(heap, n) == IF heap[n].lthread # 0 THEN NULL ELSE heap[n].left
tbt_right_child(heap, n) == IF heap[n].rthread # 0 THEN NULL ELSE heap[n].right

\* the descent of tbt_insert: where the new node goes, or a duplicate
RECURSIVE tbt_insert_loop(_, _, _, _, _)
tbt_insert_loop(heap, cur, parent, went_left, word) ==
    IF cur = NULL
    THEN [dup |-> FALSE, parent |-> parent, went_left |-> went_left]
    ELSE
    LET cmp == strcmp(word, heap[cur].data.word) IN
    IF cmp = 0
    THEN [dup |-> TRUE, parent |-> parent, went_left |-> went_left]
    ELSE IF cmp < 0
    THEN tbt_insert_loop(heap, tbt_left_child(heap, cur), cur, 1, word)
    ELSE tbt_insert_loop(heap, tbt_right_child(heap, cur), cur, 0, word)

\* tbt_insert that does not hand the parent's left thread on to a new left
\* child (mutant for C3)
tbt_insert_nothread(heap, header, rec) ==
    LET buf == str_tolower(rec.word, MAX_WORD_LEN)
        r   == [rec EXCEPT !.word = str_safe_copy(buf, MAX_WORD_LEN)]
        d   == tbt_insert_loop(heap, tbt_left_child(heap, header), header, 1,
                               r.word)
        parent == d.parent
    IN  IF d.dup THEN heap
        ELSE
        LET n  == Malloc(heap)
            h1 == Alloc(heap, n, tbt_new_node(r))
        IN  IF d.went_left # 0 THEN
                [h1 EXCEPT ![n].lthread = 1,
                           ![n].right = parent,
                           ![n].rthread = 1,
                           ![parent].left = n,
                           ![parent].lthread = 0]
            ELSE
                [h1 EXCEPT ![n].right = h1[parent].right,
                           ![n].rthread = h1[parent].rthread,
                           ![n].left = parent,
                           ![n].lthread = 1,
                           ![parent].right = n,
                           ![parent].rthread = 0]

tbt_insert(heap, header, rec) ==
    LET buf == str_tolower(rec.word, MAX_WORD_LEN)
        r   == [rec EXCEPT !.word = str_safe_copy(buf, MAX_WORD_LEN)]
        d   == tbt_insert_loop(heap, tbt_left_child(heap, header), header, 1,
                               r.word)
        parent == d.parent
    IN  IF d.dup THEN heap
        ELSE
        LET n  == Malloc(heap)
            h1 == Alloc(heap, n, tbt_new_node(r))
        IN  IF d.went_left # 0 THEN
                [h1 EXCEPT ![n].left = h1[parent].left,
                           ![n].lthread = h1[parent].lthread,
                           ![n].right = parent,
                           ![n].rthread = 1,
                           ![parent].left = n,
                           ![parent].lthread = 0]
            ELSE
                [h1 EXCEPT ![n].right = h1[parent].right,
                           ![n].rthread = h1[parent].rthread,
                           ![n].left = parent,
                           ![n].lthread = 1,
                           ![parent].right = n,
                           ![parent].rthread = 0]

\* tbt_insert when malloc returns NULL: tbt_new_node, called for a key that
\* the descent did not find, calls exit(EXIT_FAILURE)
tbt_insert_nomem(heap, header, rec) ==
    LET buf == str_tolower(rec.word, MAX_WORD_LEN)
        r   == [rec EXCEPT !.word = str_safe_copy(buf, MAX_WORD_LEN)]
        d   == tbt_insert_loop(heap, tbt_left_child(heap, header), header, 1,
                               r.word)
    IN  [heap |-> heap, exit |-> ~d.dup]

RECURSIVE tbt_search_loop(_, _, _)
tbt_search_loop(heap, cur, buf) ==
    IF cur = NULL THEN NULL
    ELSE
    LET cmp == strcmp(buf, heap[cur].data.word) IN
    IF cmp = 0 THEN cur
    ELSE IF cmp < 0 THEN tbt_search_loop(heap, tbt_left_child(heap, cur), buf)
    ELSE tbt_search_loop(heap, tbt_right_child(heap, cur), buf)

tbt_search(heap, header, word) ==
    tbt_search_loop(heap, tbt_left_child(heap, header),
                    str_tolower(word, MAX_WORD_LEN))

\* while (!cur->lthread) cur = cur->left
RECURSIVE tbt_leftmost(_, _)
tbt_leftmost(heap, cur) ==
    IF heap[cur].lthread = 0 THEN tbt_leftmost(heap, heap[cur].left) ELSE cur

\* tbt_inorder_successor that follows right without descending to the
\* leftmost node of the right subtree (mutant for C4)
tbt_inorder_successor_direct(heap, node) == heap[node].right

tbt_inorder_successor(heap, node) ==
    IF heap[node].rthread # 0 THEN heap[node].right
    ELSE tbt_leftmost(heap, heap[node].right)

\* tbt_inorder with a callback that appends the visited node
RECURSIVE tbt_inorder_loop(_, _, _, _)
tbt_inorder_loop(heap, header, cur, out) ==
    IF cur = header THEN out
    ELSE tbt_inorder_loop(heap, header, tbt_inorder_successor(heap, cur),
                          Append(out, cur))

tbt_inorder(heap, header) ==
    IF header = NULL \/ heap[header].lthread # 0 THEN <<>>
    ELSE tbt_inorder_loop(heap, header,
                          tbt_leftmost(heap, heap[header].left), <<>>)

RECURSIVE tbt_count_loop(_, _, _, _)
tbt_count_loop(heap, header, cur, count) ==
    IF cur = header THEN count
    ELSE tbt_count_loop(heap, header, tbt_inorder_successor(heap, cur),
                        count + 1)

tbt_count(heap, header) ==
    IF header = NULL \/ heap[header].lthread # 0 THEN 0
    ELSE tbt_count_loop(heap, header,
                        tbt_leftmost(heap, heap[header].left), 0)

\* the nodes that tbt_inorder_successor(node) reads: node, and when its right
\* link is a child, that child and the nodes down its left links
RECURSIVE tbt_leftmost_reads(_, _)
tbt_leftmost_reads(heap, cur) ==
    IF heap[cur].lthread # 0 THEN {cur}
    ELSE {cur} \cup tbt_leftmost_reads(heap, heap[cur].left)

tbt_successor_reads(heap, node) ==
    IF heap[node].rthread # 0 THEN {node}
    ELSE {node} \cup tbt_leftmost_reads(heap, heap[node].right)

\* the walk of tbt_free_nodes with free(cur) before the successor is read
\* (mutant for C17)
RECURSIVE tbt_free_loop_freefirst(_, _, _)
tbt_free_loop_freefirst(run, header, cur) ==
    IF cur = header THEN run
    ELSE tbt_free_loop_freefirst(
             Read(Freed(run, cur), tbt_successor_reads(run.mem, cur)),
             header, tbt_inorder_successor(run.mem, cur))

\* the walk of tbt_free_nodes: the successor is read before the node is freed
RECURSIVE tbt_free_loop(_, _, _)
tbt_free_loop(run, header, cur) ==
    IF cur = header THEN run
    ELSE tbt_free_loop(
             Freed(Read(run, tbt_successor_reads(run.mem, cur)), cur),
             header, tbt_inorder_successor(run.mem, cur))

tbt_free_nodes(heap, root, header) ==
    IF root = NULL THEN FreeRun(heap)
    ELSE tbt_free_loop(Read(FreeRun(heap), tbt_leftmost_reads(heap, root)),
                       header, tbt_leftmost(heap, root))

\* the collecting walk of tbt_delete keeping the words and their meanings
\* but not the selection counts (mutant for C24)
RECURSIVE tbt_collect_loop_nopicks(_, _, _, _, _)
tbt_collect_loop_nopicks(heap, header, cur, buf, arr) ==
    IF cur = header THEN arr
    ELSE tbt_collect_loop_nopicks(heap, header,
            tbt_inorder_successor(heap, cur), buf,
            IF strcmp(heap[cur].data.word, buf) # 0
            THEN Append(arr, [heap[cur].data EXCEPT !.user_select_count = 0])
            ELSE arr)

\* the collecting walk of tbt_delete: the records other than buf, in order
RECURSIVE tbt_collect_loop(_, _, _, _, _)
tbt_collect_loop(heap, header, cur, buf, arr) ==
    IF cur = header THEN arr
    ELSE tbt_collect_loop(heap, header, tbt_inorder_successor(heap, cur), buf,
            IF strcmp(heap[cur].data.word, buf) # 0
            THEN Append(arr, heap[cur].data) ELSE arr)

\* the re-insertion loop of tbt_delete over arr[lo..hi]: the records of the
\* first half, then, from the heap h they leave, those of the second
RECURSIVE tbt_reinsert_range(_, _, _, _, _)
tbt_reinsert_range(heap, header, arr, lo, hi) ==
    IF lo > hi THEN heap
    ELSE IF lo = hi THEN tbt_insert(heap, header, arr[lo])
    ELSE CHOOSE r \in
             {tbt_reinsert_range(h, header, arr, (lo + hi) \div 2 + 1, hi) :
                 h \in {tbt_reinsert_range(heap, header, arr, lo,
                                           (lo + hi) \div 2)}} : TRUE

\* the re-insertion loop running from the last record down to the first
\* (mutant for C25)
tbt_reinsert_backwards(heap, header, arr, i) ==
    tbt_reinsert_range(heap, header,
                       [j \in 1..Len(arr) |-> arr[Len(arr) + 1 - j]],
                       i, Len(arr))

tbt_reinsert(heap, header, arr, i) ==
    tbt_reinsert_range(heap, header, arr, i, Len(arr))

\* the reset of the header that only sets the flag and leaves header->left
\* pointing where the root was (mutant for C16)
tbt_reset_header_flagonly(heap, header) ==
    [heap EXCEPT ![header].lthread = 1]

\* tbt_delete's reset of the header to the empty-tree state
tbt_reset_header(heap, header) ==
    [heap EXCEPT ![header].left = header, ![header].lthread = 1]

\* tbt_delete without the early return for a word that was not found: it
\* frees and rebuilds the tree every time (mutant for C9)
tbt_delete_run_always(heap, header, word) ==
    LET buf == str_tolower(word, MAX_WORD_LEN)
        n   == tbt_count(heap, header)
    IN  IF n = 0 THEN [heap |-> heap, run |-> FreeRun(heap)]
        ELSE
        LET arr == IF heap[header].lthread = 0
                   THEN tbt_collect_loop(heap, header,
                            tbt_leftmost(heap, heap[header].left), buf, <<>>)
                   ELSE <<>>
            run == IF heap[header].lthread = 0
                   THEN tbt_free_nodes(heap, heap[header].left, header)
                   ELSE FreeRun(heap)
            h2 == tbt_reset_header(Released(run), header)
        IN  [heap |-> tbt_reinsert(h2, header, arr, 1), run |-> run]

\* tbt_delete: the heap it leaves and, for the record, its run of
\* tbt_free_nodes
tbt_delete_run(heap, header, word) ==
    LET buf == str_tolower(word, MAX_WORD_LEN)
        n   == tbt_count(heap, header)
    IN  IF n = 0 THEN [heap |-> heap, run |-> FreeRun(heap)]
        ELSE
        LET arr == IF heap[header].lthread = 0
                   THEN tbt_collect_loop(heap, header,
                            tbt_leftmost(heap, heap[header].left), buf, <<>>)
                   ELSE <<>>
        IN  IF Len(arr) = n THEN [heap |-> heap, run |-> FreeRun(heap)]
            ELSE
            LET run == IF heap[header].lthread = 0
                       THEN tbt_free_nodes(heap, heap[header].left, header)
                       ELSE FreeRun(heap)
                h2 == tbt_reset_header(Released(run), header)
            IN  [heap |-> tbt_reinsert(h2, header, arr, 1), run |-> run]

tbt_delete(heap, header, word) == tbt_delete_run(heap, header, word).heap

\* tbt_free on a tree [header, heap]: the data nodes are freed, then the
\* header, and the caller's pointer is set to NULL
tbt_free(t) ==
    IF t.header = NULL THEN [header |-> NULL, heap |-> t.heap,
                             run |-> FreeRun(t.heap)]
    ELSE
    LET run == IF t.heap[t.header].lthread = 0
               THEN tbt_free_nodes(t.heap, t.heap[t.header].left, t.header)
               ELSE FreeRun(t.heap)
        all == Freed(run, t.header)
    IN  [header |-> NULL, heap |-> Released(all), run |-> all]

\* ------------------------------------------------------------------------
\* Prefix ranking (autocomplete.c)
\* ------------------------------------------------------------------------
composite_score(r) == r.frequency_score + 10 * r.user_select_count

\* comparator that sorts the lower composite score first (mutant for C10)
cmp_score_asc(a, b) == composite_score(a) - composite_score(b)

\* qsort comparator: higher composite score sorts first
cmp_score_desc(a, b) == composite_score(b) - composite_score(a)

\* qsort with cmp_score_desc.  The order qsort gives to elements that
\* compare equal is unspecified: ties selects one of two outcomes, the equal
\* elements kept in their order in base or reversed.  The elements are sorted
\* class by class, a class being the elements that compare equal to an
\* element that no other one sorts before.
Reverse(q) == [i \in 1..Len(q) |-> q[Len(q) + 1 - i]]

\* the index, among lo..hi, of an element no other one sorts before
RECURSIVE qsort_first(_, _, _)
qsort_first(base, lo, hi) ==
    IF lo = hi THEN lo
    ELSE LET PickFirst(i, j) ==
                 IF cmp_score_desc(base[i], base[j]) <= 0 THEN i ELSE j
         IN  PickFirst(qsort_first(base, lo, (lo + hi) \div 2),
                       qsort_first(base, (lo + hi) \div 2 + 1, hi))

RECURSIVE qsort_classes(_, _)
qsort_classes(base, ties) ==
    IF base = <<>> THEN <<>>
    ELSE
    LET SplitAt(top) ==
            LET IsTop(x) == cmp_score_desc(x, top) = 0
                NotTop(x) == cmp_score_desc(x, top) # 0
                Ordered(class) ==
                    IF ties = "reversed" THEN Reverse(class) ELSE class
            IN  Ordered(SelectSeq(base, IsTop))
                    \o qsort_classes(SelectSeq(base, NotTop), ties)
    IN  SplitAt(base[qsort_first(base, 1, Len(base))])

qsort(base, ties) == qsort_classes(base, ties)

\* bst_collect with the tests of *count against MAX_CANDIDATES off by one:
\* it stores a candidate when *count equals MAX_CANDIDATES (mutant for C14)
RECURSIVE bst_collect_offbyone(_, _, _, _, _)
bst_collect_offbyone(heap, root, prefix, plen, buf) ==
    IF root = NULL \/ Len(buf) > MAX_CANDIDATES THEN buf
    ELSE
    LET cmp == strncmp(heap[root].data.word, prefix, plen) IN
    IF cmp > 0
    THEN bst_collect_offbyone(heap, heap[root].left, prefix, plen, buf)
    ELSE IF cmp < 0
    THEN bst_collect_offbyone(heap, heap[root].right, prefix, plen, buf)
    ELSE
        LET b1 == bst_collect_offbyone(heap, heap[root].left, prefix, plen, buf)
            b2 == IF Len(b1) <= MAX_CANDIDATES
                  THEN Append(b1, heap[root].data) ELSE b1
        IN  bst_collect_offbyone(heap, heap[root].right, prefix, plen, b2)

\* bst_collect: buf is the candidates collected so far, *count its length
RECURSIVE bst_collect(_, _, _, _, _)
bst_collect(heap, root, prefix, plen, buf) ==
    IF root = NULL \/ Len(buf) >= MAX_CANDIDATES THEN buf
    ELSE
    LET cmp == strncmp(heap[root].data.word, prefix, plen) IN
    IF cmp > 0 THEN bst_collect(heap, heap[root].left, prefix, plen, buf)
    ELSE IF cmp < 0 THEN bst_collect(heap, heap[root].right, prefix, plen, buf)
    ELSE
        LET b1 == bst_collect(heap, heap[root].left, prefix, plen, buf)
            b2 == IF Len(b1) < MAX_CANDIDATES
                  THEN Append(b1, heap[root].data) ELSE b1
        IN  bst_collect(heap, heap[root].right, prefix, plen, b2)

RECURSIVE avl_collect(_, _, _, _, _)
avl_collect(heap, root, prefix, plen, buf) ==
    IF root = NULL \/ Len(buf) >= MAX_CANDIDATES THEN buf
    ELSE
    LET cmp == strncmp(heap[root].data.word, prefix, plen) IN
    IF cmp > 0 THEN avl_collect(heap, heap[root].left, prefix, plen, buf)
    ELSE IF cmp < 0 THEN avl_collect(heap, heap[root].right, prefix, plen, buf)
    ELSE
        LET b1 == avl_collect(heap, heap[root].left, prefix, plen, buf)
            b2 == IF Len(b1) < MAX_CANDIDATES
                  THEN Append(b1, heap[root].data) ELSE b1
        IN  avl_collect(heap, heap[root].right, prefix, plen, b2)

\* ret = count < top_k ? count : top_k, and the first ret candidates
TopOf(candidates, top_k) ==
    LET ret == IF Len(candidates) < top_k THEN Len(candidates) ELSE top_k
    IN  [ret |-> ret, results |-> SubSeq(candidates, 1, ret)]

\* what a query hands back, with the candidates array as it stood before
\* qsort (kept for the record)
Outcome(candidates, top) ==
    [ret |-> top.ret, results |-> top.results, candidates |-> candidates]

Ranked(candidates, top_k, ties) ==
    Outcome(candidates, TopOf(qsort(candidates, ties), top_k))

\* return 0 before anything is collected
NothingRanked == [ret |-> 0, results |-> <<>>, candidates |-> <<>>]

autocomplete_bst(t, prefix, top_k, ties) ==
    LET buf == str_tolower(prefix, MAX_WORD_LEN)
    IN  Ranked(bst_collect(t.heap, t.root, buf, strlen(buf), <<>>), top_k, ties)

autocomplete_avl(t, prefix, top_k, ties) ==
    LET buf == str_tolower(prefix, MAX_WORD_LEN)
    IN  Ranked(avl_collect(t.heap, t.root, buf, strlen(buf), <<>>), top_k, ties)

\* the lower-bound descent with cmp > 0 in place of cmp >= 0: it goes right
\* past the nodes that match (mutant for C13)
RECURSIVE tbt_lower_bound_strict(_, _, _, _, _)
tbt_lower_bound_strict(heap, cur, buf, plen, start) ==
    IF cur = NULL THEN start
    ELSE IF strncmp(heap[cur].data.word, buf, plen) > 0
    THEN tbt_lower_bound_strict(heap, tbt_left_child(heap, cur), buf, plen, cur)
    ELSE tbt_lower_bound_strict(heap, tbt_right_child(heap, cur), buf, plen,
                                start)

\* the lower-bound descent of autocomplete_tbt
RECURSIVE tbt_lower_bound(_, _, _, _, _)
tbt_lower_bound(heap, cur, buf, plen, start) ==
    IF cur = NULL THEN start
    ELSE IF strncmp(heap[cur].data.word, buf, plen) >= 0
    THEN tbt_lower_bound(heap, tbt_left_child(heap, cur), buf, plen, cur)
    ELSE tbt_lower_bound(heap, tbt_right_child(heap, cur), buf, plen, start)

\* one iteration of the forward walk of autocomplete_tbt; w is the cursor,
\* the candidates and whether the loop has been left
tbt_walk_step(heap, header, buf, plen, w) ==
    IF w.done \/ w.cur = header THEN [w EXCEPT !.done = TRUE]
    ELSE
    LET cmp == strncmp(heap[w.cur].data.word, buf, plen) IN
    IF cmp > 0 THEN [w EXCEPT !.done = TRUE]
    ELSE [cur |-> tbt_inorder_successor(heap, w.cur),
          candidates |-> IF cmp = 0 /\ Len(w.candidates) < MAX_CANDIDATES
                         THEN Append(w.candidates, heap[w.cur].data)
                         ELSE w.candidates,
          done |-> FALSE]

\* n iterations of the walk (the loop runs at most once per node)
RECURSIVE tbt_walk(_, _, _, _, _, _)
tbt_walk(heap, header, buf, plen, w, n) ==
    IF n = 0 \/ w.done THEN w
    ELSE IF n = 1 THEN tbt_walk_step(heap, header, buf, plen, w)
    ELSE tbt_walk(heap, header, buf, plen,
                  tbt_walk(heap, header, buf, plen, w, n \div 2),
                  n - (n \div 2))

autocomplete_tbt(heap, header, prefix, top_k, ties) ==
    LET buf  == str_tolower(prefix, MAX_WORD_LEN)
        plen == strlen(buf)
    IN  IF plen = 0 \/ header = NULL \/ heap[header].lthread # 0
        THEN NothingRanked
        ELSE
        LET start == tbt_lower_bound(heap, tbt_left_child(heap, header),
                                     buf, plen, NULL)
        IN  IF start = NULL THEN NothingRanked
            ELSE
            LET w == tbt_walk(heap, header, buf, plen,
                              [cur |-> start, candidates |-> <<>>,
                               done |-> FALSE],
                              Cardinality(DOMAIN heap))
            IN  Ranked(w.candidates, top_k, ties)

\* node->data.user_select_count++ on the node a search returned, if any
select_count_incr(heap, n) ==
    IF n = NULL THEN heap
    ELSE [heap EXCEPT ![n].data.user_select_count = @ + 1]

\* autocomplete_record_selection that counts in the Unbalanced tree only
\* (mutant for C11)
autocomplete_record_selection_bstonly(word, trees) ==
    [trees EXCEPT !.bst.heap = select_count_incr(@, bst_search(trees.bst, word))]

autocomplete_record_selection(word, trees) ==
    LET bn == bst_search(trees.bst, word)
        an == avl_search(trees.avl, word)
        tn == tbt_search(trees.tbt.heap, trees.tbt.header, word)
    IN  [bst |-> [trees.bst EXCEPT !.heap = select_count_incr(@, bn)],
         avl |-> [trees.avl EXCEPT !.heap = select_count_incr(@, an)],
         tbt |-> [trees.tbt EXCEPT !.heap = select_count_incr(@, tn)]]

\* ------------------------------------------------------------------------
\* Loading a dictionary file (loader.c)
\* ------------------------------------------------------------------------
\* the lines that load_words does not skip: the word is not empty and was
\* not truncated to MAX_WORD_LEN - 1 characters
Accepted(rec) == rec.word # <<>> /\ strlen(rec.word) < MAX_WORD_LEN - 1

\* the body of load_words' loop for one parsed line: the three inserts
load_line(trees, rec) ==
    IF ~Accepted(rec) THEN trees ELSE
    [bst |-> bst_insert(trees.bst, rec),
     avl |-> avl_insert(trees.avl, rec),
     tbt |-> IF trees.tbt.header # NULL
             THEN [header |-> trees.tbt.header,
                   heap |-> tbt_insert(trees.tbt.heap, trees.tbt.header, rec)]
             ELSE trees.tbt]

\* what load_words returns for a file that opens: count, which the loop
\* increments after the three inserts of every line that has a word
load_words_ret(file) ==
    Cardinality({i \in 1..Len(file) : Accepted(file[i])})

\* load_words over the lines lo..hi of a file of parsed lines: the lines of
\* the first half, then, from the trees t they leave, those of the second
RECURSIVE load_lines(_, _, _, _)
load_lines(trees, file, lo, hi) ==
    IF lo > hi THEN trees
    ELSE IF lo = hi THEN load_line(trees, file[lo])
    ELSE CHOOSE r \in
             {load_lines(t, file, (lo + hi) \div 2 + 1, hi) :
                 t \in {load_lines(trees, file, lo, (lo + hi) \div 2)}} : TRUE

load_words(file, trees) == load_lines(trees, file, 1, Len(file))

\* printf's %d: the decimal digits of n as ASCII codes, a minus sign first
\* when n is negative
RECURSIVE sprintf_digits(_)
sprintf_digits(n) ==
    IF n < 10 THEN <<48 + n>>
    ELSE Append(sprintf_digits(n \div 10), 48 + (n % 10))

sprintf_d(n) == IF n < 0 THEN <<45>> \o sprintf_digits(-n) ELSE sprintf_digits(n)

\* atoi on a trimmed field: an optional sign, then the digits up to the
\* first character that is not one
RECURSIVE atoi_digits(_, _, _)
atoi_digits(s, i, acc) ==
    IF i > Len(s) \/ s[i] \notin 48..57 THEN acc
    ELSE atoi_digits(s, i + 1, 10 * acc + (s[i] - 48))

atoi(s) ==
    IF CharAt(s, 1) = 45 THEN -atoi_digits(s, 2, 0)
    ELSE IF CharAt(s, 1) = 43 THEN atoi_digits(s, 2, 0)
    ELSE atoi_digits(s, 1, 0)

\* write_word_cb: the line word|pos|meaning|freq|picks written for one node,
\* as the sequence of its five fields
write_word_cb(rec) ==
    <<rec.word, rec.part_of_speech, rec.meaning,
      sprintf_d(rec.frequency_score), sprintf_d(rec.user_select_count)>>

\* the record that load_words makes of a line of one to five fields: the
\* word; word|pos; word|pos|meaning; and, when a fifth field follows the
\* fourth, the frequency and the picks if they are positive
parse_line(line) ==
    LET f == IF Len(line) >= 5 THEN atoi(line[4]) ELSE 0
        p == IF Len(line) >= 5 THEN atoi(line[5]) ELSE 0
    IN  WordRecord(str_safe_copy(line[1], MAX_WORD_LEN),
                   IF Len(line) >= 3 THEN line[3] ELSE "",
                   IF Len(line) >= 2 THEN line[2] ELSE "",
                   IF f > 0 THEN f ELSE word_record_init.frequency_score,
                   IF p > 0 THEN p ELSE word_record_init.user_select_count)

\* save_custom_words: one line per node, in the order in which the traversal
\* it calls (bst_inorder) passes the nodes to write_word_cb
save_custom_words(t) ==
    LET out == bst_inorder(t).out
    IN  [i \in 1..Len(out) |-> write_word_cb(t.heap[out[i]].data)]

\* the lines of a saved file as load_words parses them
parse_lines(lines) == [i \in 1..Len(lines) |-> parse_line(lines[i])]

\* ------------------------------------------------------------------------
\* Renumbering of the three heaps
\* ------------------------------------------------------------------------
RECURSIVE Preorder(_, _)
Preorder(heap, n) ==
    IF n = NULL \/ n \notin DOMAIN heap THEN <<>>
    ELSE <<n>> \o Preorder(heap, heap[n].left) \o Preorder(heap, heap[n].right)

\* a BST or AVL tree [root, heap] with its nodes renumbered
Compact(t) ==
    LET order == WithUnreached(t.heap, Preorder(t.heap, t.root))
    IN  [root |-> NewAddr(order, t.root), heap |-> Renumber(t.heap, order)]

RECURSIVE TbtPreorder(_, _)
TbtPreorder(heap, n) ==
    IF n = NULL \/ n \notin DOMAIN heap THEN <<>>
    ELSE <<n>> \o TbtPreorder(heap, tbt_left_child(heap, n))
               \o TbtPreorder(heap, tbt_right_child(heap, n))

\* a Threaded tree [header, heap] renumbered, the header first
TbtCompact(t) ==
    LET order == WithUnreached(t.heap,
                    <<t.header>> \o
                    TbtPreorder(t.heap, tbt_left_child(t.heap, t.header)))
    IN  [header |-> NewAddr(order, t.header),
         heap |-> Renumber(t.heap, order)]

\* ------------------------------------------------------------------------
\* Inputs of the interactive specification
\* ------------------------------------------------------------------------
w_app         == <<97, 112, 112>>
w_apple       == <<97, 112, 112, 108, 101>>
w_application == <<97, 112, 112, 108, 105, 99, 97, 116, 105, 111, 110>>
w_banana      == <<98, 97, 110, 97, 110, 97>>
w_ant         == <<97, 110, 116>>
\* "Apple" and "APPLE": the key apple typed in other letter cases
w_Apple       == <<65, 112, 112, 108, 101>>
w_APPLE       == <<65, 80, 80, 76, 69>>

InputRecords ==
    { WordRecord(w_apple, "a fruit", "noun", 95, 0),
      WordRecord(w_app, "a program", "noun", 10, 0),
      WordRecord(w_application, "a request", "noun", 50, 0),
      WordRecord(w_banana, "a yellow fruit", "noun", 80, 0),
      WordRecord(w_ant, "an insect", "noun", 50, 0),
      WordRecord(w_Apple, "a company", "name", 50, 1) }

InputWords == {w_app, w_apple, w_application, w_banana, w_ant, w_APPLE}

\* the dictionary files found at startup, as sequences of parsed lines: the
\* four records of the ranking example; the records above in one file, the
\* key apple twice; and generated dictionaries of n keys that begin with k,
\* the lines in a scattered order
ExampleFile ==
    << WordRecord(w_apple, "a fruit", "noun", 95, 0),
       WordRecord(w_app, "a program", "noun", 10, 0),
       WordRecord(w_application, "a request", "noun", 50, 0),
       WordRecord(w_banana, "a yellow fruit", "noun", 80, 0) >>

MixedFile ==
    ExampleFile \o
    << WordRecord(w_ant, "an insect", "noun", 50, 0),
       WordRecord(w_Apple, "a company", "name", 50, 1) >>

DictWord(i) == <<107, 97 + (i \div 676), 97 + ((i \div 26) % 26), 97 + (i % 26)>>

DictRecord(i) ==
    WordRecord(DictWord(i), "", "noun", 10 * (1 + (i \div 256)) + (i % 2),
               IF i % 100 = 7 THEN 1 ELSE 0)

Dictionary(n) == [j \in 1..n |-> DictRecord((j * 149) % (n + 1))]

DictionaryFiles ==
    {<<>>, ExampleFile, MixedFile}
    \cup {Dictionary(n) : n \in {5, 40, MAX_CANDIDATES,
                                 MAX_CANDIDATES + Overflow}}

\* the prefixes passed: "app", "a", "k", "Kab" and the empty string
Prefixes == {w_app, <<97>>, <<107>>, <<75, 97, 98>>, <<>>}

TopKs == {0, 2, TOP_K_DEFAULT}

TieOrders == {"kept", "reversed"}

\* ------------------------------------------------------------------------
\* State
\* ------------------------------------------------------------------------
\* the key of a word: the word with its upper-case ASCII letters replaced by lower-case ones
Lower(w) == [i \in 1..Len(w) |-> IF w[i] \in 65..90 THEN w[i] + 32 ELSE w[i]]

VARIABLES
    g_bst_root,     \* root pointer of the Unbalanced tree
    bst_heap,       \* live BSTNodes
    g_avl_root,     \* root pointer of the Balanced tree
    avl_heap,       \* live AVLNodes
    g_tbt_header,   \* header pointer of the Threaded tree
    tbt_heap,       \* live TBTNodes, the header included
    g_word_count,   \* the word count that the menu and the status bar show
    ac,             \* the last prefix query and what it returned
    stored,         \* the keys inserted and not deleted since (history)
    last            \* the operation that led to this state (history)

vars == <<g_bst_root, bst_heap, g_avl_root, avl_heap, g_tbt_header, tbt_heap,
          g_word_count, ac, stored, last>>

BST == [root |-> g_bst_root, heap |-> bst_heap]
AVL == [root |-> g_avl_root, heap |-> avl_heap]

\* how many children the node p of a BST/AVL heap has
ChildCase(heap, p) ==
    IF p = NULL THEN "none"
    ELSE IF heap[p].left = NULL /\ heap[p].right = NULL THEN "leaf"
    ELSE IF heap[p].left = NULL \/ heap[p].right = NULL THEN "one"
    ELSE "two"

\* whether the Balanced tree t differs in shape from u, the tree the
\* Unbalanced algorithm makes of the same nodes: a rotation has taken place
Rotated(t, u) ==
    LET PreKeys(x) == LET o == Preorder(x.heap, x.root)
                      IN  [i \in 1..Len(o) |-> x.heap[o[i]].data.word]
    IN  PreKeys(t) # PreKeys(u)

\* The history variable: the kind of the last operation; which trees held
\* its key before it; for a delete, how many children the key's node had in
\* the Unbalanced and the Balanced tree and how many nodes tbt_delete freed;
\* whether the Balanced tree rotated; whether a delete undid the insert just
\* before it.  word and rec are the operation's argument when some tree had
\* work to do (an insert of a key that a tree lacked, a delete of a key that
\* a tree held) and empty otherwise; cased tells whether the key of an
\* inserted record was written with upper-case letters; picks pairs each key
\* with the number of times it has been passed to
\* autocomplete_record_selection since the load; runs records the runs of
\* bst_free, avl_free and tbt_free_nodes (with tbt_free's free of the header)
\* that the operation made; nomem names the trees in which a malloc of the
\* operation returned NULL; empty tells whether the key passed was the empty
\* string; ret is what load_words returned and added the number of records
\* it added to the Unbalanced tree; stale names, for each tree, the stored
\* keys whose node the operation freed or gave to another key; walk is what
\* a traversal of the Unbalanced tree did and height what bst_height did.
NoWalk == [kind |-> "none", ended |-> TRUE, restored |-> TRUE, visits |-> <<>>,
           threads |-> <<>>, others |-> FALSE, count |-> 0]

NoHeight == [ret |-> 0, top |-> 0, outside |-> FALSE, crashed |-> FALSE]

NoOp == [op |-> "init", word |-> <<>>, rec |-> word_record_init, cased |-> FALSE,
         found |-> [bst |-> FALSE, avl |-> FALSE, tbt |-> FALSE],
         bst_case |-> "none", avl_case |-> "none", avl_rotated |-> FALSE,
         tbt_freed |-> 0, undo |-> FALSE, picks |-> {},
         runs |-> [bst |-> NoRun, avl |-> NoRun, tbt |-> NoRun],
         nomem |-> {}, empty |-> FALSE, ret |-> 0, added |-> 0,
         stale |-> [bst |-> {}, avl |-> {}, tbt |-> {}],
         walk |-> NoWalk, height |-> NoHeight]

\* no prefix query yet
NoQuery == [tree |-> "none", prefix |-> <<>>, top_k |-> 0, ret |-> 0,
            results |-> <<>>, candidates |-> <<>>]

\* which trees hold the key of word in the current state
Found(word) ==
    [bst |-> bst_search(BST, word) # NULL,
     avl |-> avl_search(AVL, word) # NULL,
     tbt |-> tbt_search(tbt_heap, g_tbt_header, word) # NULL]

Init ==
    /\ g_bst_root = NULL
    /\ bst_heap = <<>>
    /\ g_avl_root = NULL
    /\ avl_heap = <<>>
    /\ LET c == tbt_create_header(<<>>)
       IN  g_tbt_header = c.ret /\ tbt_heap = c.heap
    /\ g_word_count = 0
    /\ ac = NoQuery
    /\ stored = {}
    /\ last = NoOp

\* the three trees and the history after an operation of the menu, which
\* ends with g_word_count = bst_count(g_bst_root) unless the process has
\* exited before
Becomes(b, a, t, s, l) ==
    /\ g_bst_root' = b.root
    /\ bst_heap' = b.heap
    /\ g_avl_root' = a.root
    /\ avl_heap' = a.heap
    /\ g_tbt_header' = t.header
    /\ tbt_heap' = t.heap
    /\ g_word_count' = IF l.op = "exit" THEN g_word_count ELSE bst_count(b)
    /\ ac' = ac
    /\ stored' = s
    /\ last' = l

\* the history record of an insert of rec, f telling which trees held its key
InsertRecord(rec, f) ==
    [op |-> "insert",
     word |-> IF f.bst /\ f.avl /\ f.tbt THEN <<>> ELSE rec.word,
     rec |-> IF f.bst /\ f.avl /\ f.tbt THEN word_record_init ELSE rec,
     cased |-> rec.word # Lower(rec.word),
     found |-> f, bst_case |-> "none", avl_case |-> "none",
     avl_rotated |-> Rotated(avl_insert(AVL, rec), bst_insert(AVL, rec)),
     tbt_freed |-> 0, undo |-> FALSE, picks |-> {}, runs |-> NoOp.runs,
     nomem |-> {}, empty |-> rec.word = <<>>, ret |-> 0, added |-> 0,
     stale |-> NoOp.stale, walk |-> NoWalk, height |-> NoHeight]

\* the model holds at most MaxNodes keys per tree
HasRoom(f) ==
    /\ IF f.bst THEN TRUE ELSE Cardinality(DOMAIN bst_heap) < MaxNodes
    /\ IF f.avl THEN TRUE ELSE Cardinality(DOMAIN avl_heap) < MaxNodes
    /\ IF f.tbt THEN TRUE ELSE Cardinality(DOMAIN tbt_heap) < MaxNodes + 1

\* the stored keys whose node handle an operation has made invalid: the node
\* was passed to free, is no longer live, or holds another key's record
Invalidated(before, after, freed) ==
    {before[n].data.word :
        n \in {x \in DOMAIN before :
                  \/ x \in freed
                  \/ x \notin DOMAIN after
                  \/ after[x].data.word # before[x].data.word}}

\* the same for the three trees, the header of the Threaded tree left out
InvalidatedIn(b, a, t, freed) ==
    [bst |-> Invalidated(bst_heap, b, {}),
     avl |-> Invalidated(avl_heap, a, {}),
     tbt |-> Invalidated([n \in (DOMAIN tbt_heap) \ {g_tbt_header}
                             |-> tbt_heap[n]], t, freed)]

\* insert one record into the three trees, as the callers of the trees do
\* (bst_insert; g_avl_root = avl_insert; tbt_insert)
Insert(rec) ==
    /\ HasRoom(Found(rec.word))
    /\ \E b \in {bst_insert(BST, rec)}, a \in {avl_insert(AVL, rec)},
          t \in {tbt_insert(tbt_heap, g_tbt_header, rec)} :
         Becomes(Compact(b), Compact(a),
                 TbtCompact([header |-> g_tbt_header, heap |-> t]),
                 stored \cup {Lower(rec.word)},
                 [InsertRecord(rec, Found(rec.word)) EXCEPT
                     !.stale = InvalidatedIn(b.heap, a.heap, t, {})])

\* the history record of a delete of word, d being the run of tbt_delete
DeleteRecord(word, f, d) ==
    [op |-> "delete",
     word |-> IF f.bst \/ f.avl \/ f.tbt THEN word ELSE <<>>,
     rec |-> word_record_init, cased |-> FALSE,
     found |-> f,
     bst_case |-> ChildCase(bst_heap, bst_search(BST, word)),
     avl_case |-> ChildCase(avl_heap, avl_search(AVL, word)),
     avl_rotated |-> Rotated(avl_delete(AVL, word), bst_delete(AVL, word)),
     tbt_freed |-> Len(d.run.freed),
     undo |-> /\ last.op = "insert"
              /\ ~last.found.bst /\ ~last.found.avl /\ ~last.found.tbt
              /\ str_tolower(last.word, MAX_WORD_LEN)
                     = str_tolower(word, MAX_WORD_LEN),
     picks |-> {},
     runs |-> [NoOp.runs EXCEPT !.tbt = Recorded(d.run, g_tbt_header)],
     nomem |-> {}, empty |-> word = <<>>, ret |-> 0, added |-> 0,
     stale |-> NoOp.stale, walk |-> NoWalk, height |-> NoHeight]

\* delete one word from the three trees (bst_delete; g_avl_root = avl_delete;
\* tbt_delete), d being the run of tbt_delete
Delete(word) ==
    \E b \in {bst_delete(BST, word)}, a \in {avl_delete(AVL, word)},
       d \in {tbt_delete_run(tbt_heap, g_tbt_header, word)} :
        Becomes(Compact(b), Compact(a),
                TbtCompact([header |-> g_tbt_header, heap |-> d.heap]),
                stored \ {Lower(word)},
                [DeleteRecord(word, Found(word), d) EXCEPT
                    !.stale = InvalidatedIn(b.heap, a.heap, d.heap,
                                            SeqRange(d.run.freed))])

Next ==
    \/ \E rec \in InputRecords : Insert(rec)
    \/ \E word \in InputWords : Delete(word)

Spec == Init /\ [][Next]_vars

\* the records inserted, the words deleted and the files loaded in the
\* specification of the nodes' lifetime
LifeRecords ==
    { WordRecord(w_apple, "a fruit", "noun", 95, 0),
      WordRecord(w_app, "a program", "noun", 10, 0),
      WordRecord(w_banana, "a yellow fruit", "noun", 80, 0),
      WordRecord(w_Apple, "a company", "name", 50, 1) }

LifeWords == {w_app, w_APPLE, w_banana, w_ant, DictWord(7), DictWord(12)}

LifeFiles == {<<>>, ExampleFile, Dictionary(16)}

\* the three trees that "Load from file" frees when words are stored, with
\* the new header it creates, and the runs of the three frees
Emptied ==
    IF bst_count(BST) > 0
    THEN LET b == bst_free(BST)
             a == avl_free(AVL)
             t == tbt_free([header |-> g_tbt_header, heap |-> tbt_heap])
             c == tbt_create_header(t.heap)
         IN  [bst |-> [root |-> b.root, heap |-> b.heap],
              avl |-> [root |-> a.root, heap |-> a.heap],
              tbt |-> [header |-> c.ret, heap |-> c.heap],
              runs |-> [bst |-> Recorded(b.run, NULL),
                        avl |-> Recorded(a.run, NULL),
                        tbt |-> Recorded(t.run, g_tbt_header)]]
    ELSE [bst |-> BST, avl |-> AVL,
          tbt |-> [header |-> g_tbt_header, heap |-> tbt_heap],
          runs |-> NoOp.runs]

\* menu_load_from_file with the answer y and a file that opens: the trees
\* are freed if g_word_count (bst_count of the Unbalanced tree) is positive,
\* then the file is loaded
Reload(file) ==
    \E e \in {Emptied} :
      \E trees \in {load_words(file, [bst |-> e.bst, avl |-> e.avl,
                                       tbt |-> e.tbt])} :
        /\ g_bst_root' = Compact(trees.bst).root
        /\ bst_heap' = Compact(trees.bst).heap
        /\ g_avl_root' = Compact(trees.avl).root
        /\ avl_heap' = Compact(trees.avl).heap
        /\ g_tbt_header' = TbtCompact(trees.tbt).header
        /\ tbt_heap' = TbtCompact(trees.tbt).heap
        /\ g_word_count' = bst_count(trees.bst)
        /\ ac' = ac
        /\ stored' = {Lower(file[i].word) : i \in 1..Len(file)}
        /\ last' = [NoOp EXCEPT !.op = "reload", !.runs = e.runs,
                                !.ret = load_words_ret(file),
                                !.added = bst_count(trees.bst)
                                          - bst_count(e.bst),
                                !.word = IF Len(file) = 0 THEN <<>>
                                         ELSE file[1].word]

NextLife ==
    \/ \E rec \in LifeRecords : Insert(rec)
    \/ \E word \in LifeWords : Delete(word)
    \/ \E file \in LifeFiles : Reload(file)

SpecLife == Init /\ [][NextLife]_vars

\* the session file: at exit the Unbalanced tree is saved to custom_words.txt
\* if it is not empty (main.c:198-203), and the next run of the program
\* loads that file into three empty trees (main.c:127-143)
Restart ==
    /\ g_bst_root # NULL
    /\ \E file \in {parse_lines(save_custom_words(BST))} :
         \E c \in {tbt_create_header(<<>>)} :
           \E trees \in {load_words(file,
                              [bst |-> [root |-> NULL, heap |-> <<>>],
                               avl |-> [root |-> NULL, heap |-> <<>>],
                               tbt |-> [header |-> c.ret, heap |-> c.heap]])} :
             /\ g_bst_root' = Compact(trees.bst).root
             /\ bst_heap' = Compact(trees.bst).heap
             /\ g_avl_root' = Compact(trees.avl).root
             /\ avl_heap' = Compact(trees.avl).heap
             /\ g_tbt_header' = TbtCompact(trees.tbt).header
             /\ tbt_heap' = TbtCompact(trees.tbt).heap
             /\ g_word_count' = IF load_words_ret(file) > 0
                                THEN bst_count(trees.bst) ELSE 0
             /\ ac' = NoQuery
             /\ stored' = {Lower(file[i].word) : i \in 1..Len(file)}
             /\ last' = [NoOp EXCEPT !.op = "restart",
                                     !.ret = load_words_ret(file),
                                     !.added = bst_count(trees.bst)]

\* the records inserted, the words deleted and the files loaded in the
\* specification of the session file
SaveRecords ==
    { WordRecord(w_apple, "a fruit", "noun", 95, 0),
      WordRecord(w_app, "a program", "noun", 10, 0),
      WordRecord(w_banana, "a yellow fruit", "noun", 80, 0),
      WordRecord(w_Apple, "a company", "name", 50, 1) }

SaveWords == {w_app, w_APPLE, w_ant}

SaveFiles == {ExampleFile, MixedFile, Dictionary(5)}

NextSave ==
    \/ \E rec \in SaveRecords : Insert(rec)
    \/ \E word \in SaveWords : Delete(word)
    \/ \E file \in SaveFiles : Reload(file)
    \/ Restart

SpecSave == Init /\ [][NextSave]_vars

\* the records and words passed to the trees' functions directly, the empty
\* key among them, and the allocations that fail: the trees in which the
\* malloc of an insert returns NULL
ApiRecords ==
    { WordRecord(w_apple, "a fruit", "noun", 95, 0),
      WordRecord(w_app, "a program", "noun", 10, 0),
      WordRecord(<<>>, "no word", "noun", 50, 0) }

ApiWords == {w_apple, w_app, <<>>}

OutOfMemory == (SUBSET {"bst", "avl", "tbt"}) \ {{}}

\* the process has not called exit
Running == last.op # "exit"

ApiInsert(rec) == Running /\ Insert(rec)

ApiDelete(word) == Running /\ Delete(word)

\* the three inserts, in the callers' order, when the malloc of the trees in
\* oom returns NULL: bst_insert returns, avl_insert and tbt_insert end the
\* process when they get to allocate
InsertOutOfMemory(rec, oom) ==
    /\ Running
    /\ HasRoom(Found(rec.word))
    /\ \E b \in {IF "bst" \in oom THEN bst_insert_nomem(BST, rec)
                  ELSE [tree |-> bst_insert(BST, rec), failed |-> FALSE]},
          a \in {IF "avl" \in oom THEN avl_insert_nomem(AVL, rec)
                  ELSE [tree |-> avl_insert(AVL, rec), exit |-> FALSE]} :
         \E t \in {IF a.exit THEN [heap |-> tbt_heap, exit |-> FALSE]
                    ELSE IF "tbt" \in oom
                    THEN tbt_insert_nomem(tbt_heap, g_tbt_header, rec)
                    ELSE [heap |-> tbt_insert(tbt_heap, g_tbt_header, rec),
                          exit |-> FALSE]} :
           Becomes(Compact(b.tree), Compact(a.tree),
                   TbtCompact([header |-> g_tbt_header, heap |-> t.heap]),
                   stored \cup {Lower(rec.word)},
                   [InsertRecord(rec, Found(rec.word)) EXCEPT
                       !.op = IF a.exit \/ t.exit THEN "exit" ELSE "insert",
                       !.nomem = {x \in {"bst"} : b.failed}
                                 \cup {x \in {"avl"} : a.exit}
                                 \cup {x \in {"tbt"} : t.exit}])

NextApi ==
    \/ \E rec \in ApiRecords : ApiInsert(rec)
    \/ \E word \in ApiWords : ApiDelete(word)
    \/ \E rec \in ApiRecords, oom \in OutOfMemory :
           InsertOutOfMemory(rec, oom)

SpecApi == Init /\ [][NextApi]_vars

\* the three trees after load_words
Loaded(trees, file) ==
    /\ g_bst_root' = Compact(trees.bst).root
    /\ bst_heap' = Compact(trees.bst).heap
    /\ g_avl_root' = Compact(trees.avl).root
    /\ avl_heap' = Compact(trees.avl).heap
    /\ g_tbt_header' = TbtCompact(trees.tbt).header
    /\ tbt_heap' = TbtCompact(trees.tbt).heap
    /\ g_word_count' = IF load_words_ret(file) > 0 THEN bst_count(trees.bst)
                       ELSE g_word_count
    /\ ac' = ac
    /\ stored' = {Lower(file[i].word) : i \in 1..Len(file)}
    /\ last' = [NoOp EXCEPT !.op = "load", !.ret = load_words_ret(file),
                            !.added = bst_count(trees.bst) - bst_count(BST)]

\* the start of the program: the dictionary file, if one is found, is loaded
\* into the three trees before the menu is shown
Startup(file) ==
    /\ last.op = "init"
    /\ Loaded(load_words(file, [bst |-> BST, avl |-> AVL,
                                tbt |-> [header |-> g_tbt_header,
                                         heap |-> tbt_heap]]),
              file)

\* A query leaves the trees as they are, so the answer to a second query
\* would be the one it gets when asked first: queries are asked of the state
\* that a load or a selection has left.
Queryable == last.op \in {"load", "select"} /\ ac.tree = "none"

\* a prefix query on one tree has returned r
Answered(tree, prefix, top_k, r) ==
    /\ ac' = [tree |-> tree, prefix |-> prefix, top_k |-> top_k,
              ret |-> r.ret, results |-> r.results,
              candidates |-> r.candidates]
    /\ UNCHANGED <<g_bst_root, bst_heap, g_avl_root, avl_heap, g_tbt_header,
                   tbt_heap, g_word_count, stored, last>>

AutocompleteBst(prefix, top_k, ties) ==
    /\ Queryable
    /\ Answered("bst", prefix, top_k,
                autocomplete_bst(BST, prefix, top_k, ties))

AutocompleteAvl(prefix, top_k, ties) ==
    /\ Queryable
    /\ Answered("avl", prefix, top_k,
                autocomplete_avl(AVL, prefix, top_k, ties))

AutocompleteTbt(prefix, top_k, ties) ==
    /\ Queryable
    /\ Answered("tbt", prefix, top_k,
                autocomplete_tbt(tbt_heap, g_tbt_header, prefix, top_k, ties))

NextRank ==
    \/ \E file \in DictionaryFiles : Startup(file)
    \/ \E prefix \in Prefixes, top_k \in TopKs, ties \in TieOrders :
           AutocompleteBst(prefix, top_k, ties)
    \/ \E prefix \in Prefixes, top_k \in TopKs, ties \in TieOrders :
           AutocompleteAvl(prefix, top_k, ties)
    \/ \E prefix \in Prefixes, top_k \in TopKs, ties \in TieOrders :
           AutocompleteTbt(prefix, top_k, ties)

SpecRank == Init /\ [][NextRank]_vars

\* the words picked from a result list, or typed and confirmed in the search
\* box: stored keys, one of them in upper case, and a key no example holds
SelectWords == {w_apple, w_APPLE, w_application, w_ant}

SelectFiles == {ExampleFile, MixedFile}

SelectPrefixes == {w_app, <<97>>}

\* how many times word has been picked since the load
Picks(word) ==
    IF \E e \in last.picks : e[1] = Lower(word)
    THEN (CHOOSE e \in last.picks : e[1] = Lower(word))[2]
    ELSE 0

Picked(word) ==
    {e \in last.picks : e[1] # Lower(word)}
        \cup {<<Lower(word), Picks(word) + 1>>}

\* the user picks word: autocomplete_record_selection on the three trees.
\* The model follows at most MaxSelections picks of one key.
RecordSelection(word) ==
    /\ last.op \in {"load", "select"}
    /\ Picks(word) < MaxSelections
    /\ \E trees \in {autocomplete_record_selection(word,
                          [bst |-> BST, avl |-> AVL,
                           tbt |-> [header |-> g_tbt_header,
                                    heap |-> tbt_heap]])} :
           /\ g_bst_root' = trees.bst.root
           /\ bst_heap' = trees.bst.heap
           /\ g_avl_root' = trees.avl.root
           /\ avl_heap' = trees.avl.heap
           /\ g_tbt_header' = trees.tbt.header
           /\ tbt_heap' = trees.tbt.heap
    /\ g_word_count' = g_word_count
    /\ ac' = NoQuery
    /\ stored' = stored
    /\ last' = [NoOp EXCEPT !.op = "select", !.word = word,
                            !.picks = Picked(word)]

NextSelect ==
    \/ \E file \in SelectFiles : Startup(file)
    \/ \E word \in SelectWords : RecordSelection(word)
    \/ \E prefix \in SelectPrefixes, ties \in TieOrders :
           AutocompleteBst(prefix, TOP_K_DEFAULT, ties)
    \/ \E prefix \in SelectPrefixes, ties \in TieOrders :
           AutocompleteAvl(prefix, TOP_K_DEFAULT, ties)
    \/ \E prefix \in SelectPrefixes, ties \in TieOrders :
           AutocompleteTbt(prefix, TOP_K_DEFAULT, ties)

SpecSelect == Init /\ [][NextSelect]_vars

\* the right pointers that were NULL in the heap before and are not in the
\* heap now: each as the key of its node and the key it points to
Threads(before, now) ==
    {<<before[n].data.word, now[now[n].right].data.word>> :
        n \in {x \in DOMAIN before :
                  before[x].right = NULL /\ now[x].right # NULL}}

\* whether the heap now differs from the heap before in anything else: the
\* live nodes, a record, a left pointer, a right pointer that was not NULL
OtherChanges(before, now) ==
    \/ DOMAIN now # DOMAIN before
    \/ \E n \in DOMAIN before :
          \/ now[n].data # before[n].data
          \/ now[n].left # before[n].left
          \/ before[n].right # NULL /\ now[n].right # before[n].right

\* what a traversal run of the tree t did: whether its loop ended, whether
\* it left the heap as it found it, the keys passed to the callback, the
\* threads in place at each call, whether a call found any other change,
\* and the count
Walked(kind, t, run) ==
    [kind |-> kind,
     ended |-> run.cur = NULL,
     restored |-> run.heap = t.heap,
     visits |-> [i \in 1..Len(run.out) |-> t.heap[run.out[i]].data.word],
     threads |-> [i \in 1..Len(run.at) |-> Threads(t.heap, run.at[i])],
     others |-> \E i \in 1..Len(run.at) : OtherChanges(t.heap, run.at[i]),
     count |-> run.count]

\* a traversal of the Unbalanced tree has run: the heap is as it left it
Traversed(kind, run) ==
    /\ bst_heap' = run.heap
    /\ last' = [NoOp EXCEPT !.op = "walk", !.walk = Walked(kind, BST, run)]
    /\ UNCHANGED <<g_bst_root, g_avl_root, avl_heap, g_tbt_header, tbt_heap,
                   g_word_count, ac, stored>>

\* bst_inorder(g_bst_root, callback, arg)
BstInorder == \E run \in {bst_inorder(BST)} : Traversed("inorder", run)

\* bst_preorder(g_bst_root, callback, arg)
BstPreorder == \E run \in {bst_preorder(BST)} : Traversed("preorder", run)

\* bst_count(g_bst_root)
BstCount == \E run \in {bst_count_run(BST)} : Traversed("count", run)

NextWalk ==
    \/ \E rec \in LifeRecords : Insert(rec)
    \/ \E word \in LifeWords : Delete(word)
    \/ \E file \in LifeFiles : Reload(file)
    \/ BstInorder
    \/ BstPreorder
    \/ BstCount

SpecWalk == Init /\ [][NextWalk]_vars

\* the longest left spine of the word files loaded before bst_height
CombSpine == 130

\* line j of a file whose Unbalanced tree is a left spine of s nodes, each
\* but the last with a right child: the spine in descending key order, each
\* spine word followed by the word just above it
CombRecord(s, j) ==
    LET i == (j + 1) \div 2
    IN  IF j % 2 = 1 THEN DictRecord(2 * (s - i))
        ELSE DictRecord(2 * (s - i) + 1)

Comb(s) == [j \in 1..(2 * s - 1) |-> CombRecord(s, j)]

\* a file in ascending key order
Ascending(n) == [j \in 1..n |-> DictRecord(j)]

\* the word files: short ones of both shapes, and those with the longest
\* spines
HeightFiles ==
    {Comb(s) : s \in 1..(CombSpine \div 2)}
    \cup {Comb(s) : s \in (CombSpine - 2)..CombSpine}
    \cup {Ascending(n) : n \in 1..(CombSpine \div 2)}
    \cup {ExampleFile, MixedFile, Dictionary(16)}

\* the program starts with a word file: it loads the file into the empty
\* trees, sets g_word_count and prints bst_height(g_bst_root)
StartupHeight(file) ==
    /\ last.op = "init"
    /\ load_words_ret(file) > 0
    /\ \E trees \in {load_words(file, [bst |-> BST, avl |-> AVL,
                                        tbt |-> [header |-> g_tbt_header,
                                                 heap |-> tbt_heap]])} :
         \E height \in HeightOutcomes(bst_height(trees.bst)) :
           /\ g_bst_root' = trees.bst.root
           /\ bst_heap' = trees.bst.heap
           /\ g_avl_root' = trees.avl.root
           /\ avl_heap' = trees.avl.heap
           /\ g_tbt_header' = trees.tbt.header
           /\ tbt_heap' = trees.tbt.heap
           /\ g_word_count' = bst_count(trees.bst)
           /\ last' = [NoOp EXCEPT !.op = "height",
                                   !.ret = load_words_ret(file),
                                   !.added = bst_count(trees.bst),
                                   !.height = height]
    /\ ac' = ac
    /\ stored' = {Lower(file[i].word) : i \in 1..Len(file)}

NextHeight == \E file \in HeightFiles : StartupHeight(file)

SpecHeight == Init /\ [][NextHeight]_vars

\* a path handed to load_words: whether fopen succeeds on it, and the lines
\* of the file
Path(opens, lines) == [opens |-> opens, lines |-> lines]

NoSuchFile == Path(FALSE, <<>>)

\* load_words(path, ...): nothing is inserted if the file does not open
load_words_path(path, trees) ==
    IF path.opens THEN load_words(path.lines, trees) ELSE trees

\* the value load_words(path, ...) returns: -1 if the file does not open
load_words_path_ret(path) ==
    IF path.opens THEN load_words_ret(path.lines) ELSE -1

\* the keys that load_words(path, ...) hands to the insert functions
PathWords(path) ==
    IF path.opens
    THEN {Lower(path.lines[i].word) :
             i \in {j \in 1..Len(path.lines) : Accepted(path.lines[j])}}
    ELSE {}

\* the three trees after bst_free, avl_free, tbt_free and tbt_create_header
FreedTrees ==
    LET b == bst_free(BST)
        a == avl_free(AVL)
        t == tbt_free([header |-> g_tbt_header, heap |-> tbt_heap])
        c == tbt_create_header(t.heap)
    IN  [bst |-> [root |-> b.root, heap |-> b.heap],
         avl |-> [root |-> a.root, heap |-> a.heap],
         tbt |-> [header |-> c.ret, heap |-> c.heap]]

\* the trees of the window become trees; g_word_count becomes count
GuiBecomes(trees, count, words, l) ==
    /\ g_bst_root' = Compact(trees.bst).root
    /\ bst_heap' = Compact(trees.bst).heap
    /\ g_avl_root' = Compact(trees.avl).root
    /\ avl_heap' = Compact(trees.avl).heap
    /\ g_tbt_header' = TbtCompact(trees.tbt).header
    /\ tbt_heap' = TbtCompact(trees.tbt).heap
    /\ g_word_count' = count
    /\ ac' = ac
    /\ stored' = words
    /\ last' = l

\* activate: the window loads custom_words.txt and, if that gives no word,
\* words.txt; g_word_count is set only if words were loaded
GuiStartup(custom, words) ==
    /\ last.op = "init"
    /\ \E first \in {load_words_path(custom,
                          [bst |-> BST, avl |-> AVL,
                           tbt |-> [header |-> g_tbt_header,
                                    heap |-> tbt_heap]])} :
       \E n \in {IF load_words_path_ret(custom) <= 0
                  THEN load_words_path_ret(words)
                  ELSE load_words_path_ret(custom)} :
       \E trees \in {IF load_words_path_ret(custom) <= 0
                      THEN load_words_path(words, first) ELSE first} :
           GuiBecomes(trees,
                      IF n > 0 THEN bst_count(trees.bst) ELSE g_word_count,
                      IF load_words_path_ret(custom) <= 0
                      THEN PathWords(custom) \cup PathWords(words)
                      ELSE PathWords(custom),
                      [NoOp EXCEPT !.op = "gui_start", !.ret = n,
                                   !.added = bst_count(trees.bst)])

\* on_insert_clicked with a word in the dialog: the three inserts and
\* g_word_count = bst_count(g_bst_root).  With an empty word field the
\* handler changes nothing.
on_insert_clicked(rec) ==
    /\ last.op # "init"
    /\ rec.word # <<>>
    /\ Insert(rec)

\* on_delete_clicked confirmed for a word: the three deletes and
\* g_word_count = bst_count(g_bst_root)
on_delete_clicked(word) ==
    /\ last.op # "init"
    /\ word # <<>>
    /\ Delete(word)

\* on_load_clicked with a file chosen: the trees are freed, the file is
\* loaded, and g_word_count is set if load_words returned a positive number
on_load_clicked(path) ==
    /\ last.op # "init"
    /\ \E e \in {FreedTrees} :
       \E trees \in {load_words_path(path, e)} :
       \E n \in {load_words_path_ret(path)} :
           GuiBecomes(trees,
                      IF n > 0 THEN bst_count(trees.bst) ELSE g_word_count,
                      PathWords(path),
                      [NoOp EXCEPT !.op = "gui_load", !.ret = n,
                                   !.added = bst_count(trees.bst)])

\* the records typed into the insert dialog, the words deleted and the files
\* of the window
GuiRecords ==
    { WordRecord(w_apple, "a fruit", "noun", FREQ_SCORE_DEFAULT, 0),
      WordRecord(w_app, "a program", "noun", FREQ_SCORE_DEFAULT, 0),
      WordRecord(w_banana, "", "", FREQ_SCORE_DEFAULT, 0),
      WordRecord(w_Apple, "a company", "name", FREQ_SCORE_DEFAULT, 0) }

GuiWords == {w_app, w_APPLE, w_ant}

GuiPaths ==
    {NoSuchFile, Path(TRUE, <<>>), Path(TRUE, ExampleFile),
     Path(TRUE, MixedFile), Path(TRUE, Dictionary(5))}

NextGui ==
    \/ \E custom \in {NoSuchFile, Path(TRUE, ExampleFile)},
          words \in {NoSuchFile, Path(TRUE, <<>>), Path(TRUE, MixedFile)} :
          GuiStartup(custom, words)
    \/ \E rec \in GuiRecords : on_insert_clicked(rec)
    \/ \E word \in GuiWords : on_delete_clicked(word)
    \/ \E path \in GuiPaths : on_load_clicked(path)

SpecGui == Init /\ [][NextGui]_vars

\* the records inserted, the words deleted and the words selected when
\* inserts, deletes and selections alternate
SyncRecords ==
    { WordRecord(w_apple, "a fruit", "noun", 95, 0),
      WordRecord(w_app, "a program", "noun", 10, 0),
      WordRecord(w_application, "a request", "noun", 50, 0),
      WordRecord(w_banana, "a yellow fruit", "noun", 80, 0),
      WordRecord(w_Apple, "a company", "name", 50, 1) }

SyncWords == {w_app, w_APPLE, w_application, w_ant}

SyncSelections == {w_APPLE, w_ant}

\* the selection count that the Unbalanced tree holds for word, 0 if it does
\* not hold the word
SelectCount(word) ==
    LET n == bst_search(BST, word)
    IN  IF n = NULL THEN 0 ELSE bst_heap[n].data.user_select_count

\* the user activates a result row or confirms a word in the search box:
\* autocomplete_record_selection(word, g_bst_root, g_avl_root, g_tbt_header).
\* The model follows selection counts up to MaxSelections.
Select(word) ==
    /\ SelectCount(word) < MaxSelections
    /\ \E trees \in {autocomplete_record_selection(word,
                          [bst |-> BST, avl |-> AVL,
                           tbt |-> [header |-> g_tbt_header,
                                    heap |-> tbt_heap]])} :
           /\ g_bst_root' = trees.bst.root
           /\ bst_heap' = trees.bst.heap
           /\ g_avl_root' = trees.avl.root
           /\ avl_heap' = trees.avl.heap
           /\ g_tbt_header' = trees.tbt.header
           /\ tbt_heap' = trees.tbt.heap
           /\ last' = [NoOp EXCEPT
                         !.op = "select", !.word = word, !.found = Found(word),
                         !.stale = InvalidatedIn(trees.bst.heap, trees.avl.heap,
                                                 trees.tbt.heap, {})]
    /\ g_word_count' = g_word_count
    /\ ac' = NoQuery
    /\ stored' = stored

NextSync ==
    \/ \E rec \in SyncRecords : Insert(rec)
    \/ \E word \in SyncWords : Delete(word)
    \/ \E word \in SyncSelections : Select(word)

SpecSync == Init /\ [][NextSync]_vars

\* ------------------------------------------------------------------------
\* Vocabulary of the properties: what a tree holds, read off its links
\* without running any of its operations
\* ------------------------------------------------------------------------
\* lexicographic order on byte strings, a proper prefix first
RECURSIVE LexLess(_, _)
LexLess(a, b) ==
    IF b = <<>> THEN FALSE
    ELSE IF a = <<>> THEN TRUE
    ELSE IF Head(a) # Head(b) THEN Head(a) < Head(b)
    ELSE LexLess(Tail(a), Tail(b))

Abs(x) == IF x < 0 THEN -x ELSE x

\* BST and AVL heaps: the nodes of the subtree rooted at n, left to right
RECURSIVE Inorder(_, _)
Inorder(heap, n) ==
    IF n = NULL THEN <<>>
    ELSE Inorder(heap, heap[n].left) \o <<n>> \o Inorder(heap, heap[n].right)

\* Threaded heap: the same over the links that are not threads
RECURSIVE TbtInorder(_, _)
TbtInorder(heap, n) ==
    IF n = NULL THEN <<>>
    ELSE TbtInorder(heap, tbt_left_child(heap, n)) \o <<n>>
         \o TbtInorder(heap, tbt_right_child(heap, n))

KeysOf(heap, nodes) == {heap[nodes[i]].data.word : i \in 1..Len(nodes)}
KeySeq(heap, nodes) == [i \in 1..Len(nodes) |-> heap[nodes[i]].data.word]
RecordsOf(heap, nodes) == {heap[nodes[i]].data : i \in 1..Len(nodes)}

StrictlyAscending(keys) ==
    \A i \in 1..(Len(keys) - 1) : LexLess(keys[i], keys[i + 1])

\* every node's key lies strictly between the keys of its two subtrees
SearchOrdered(heap, root) ==
    \A n \in SeqRange(Inorder(heap, root)) :
        /\ heap[n].data.word = Lower(heap[n].data.word)
        /\ \A k \in KeysOf(heap, Inorder(heap, heap[n].left)) :
               LexLess(k, heap[n].data.word)
        /\ \A k \in KeysOf(heap, Inorder(heap, heap[n].right)) :
               LexLess(heap[n].data.word, k)

TbtRoot == tbt_left_child(tbt_heap, g_tbt_header)
TbtNodes == TbtInorder(tbt_heap, TbtRoot)

TbtSearchOrdered ==
    \A n \in SeqRange(TbtNodes) :
        /\ tbt_heap[n].data.word = Lower(tbt_heap[n].data.word)
        /\ \A k \in KeysOf(tbt_heap,
                           TbtInorder(tbt_heap, tbt_left_child(tbt_heap, n))) :
               LexLess(k, tbt_heap[n].data.word)
        /\ \A k \in KeysOf(tbt_heap,
                           TbtInorder(tbt_heap, tbt_right_child(tbt_heap, n))) :
               LexLess(tbt_heap[n].data.word, k)

\* the true height of a subtree of a BST or AVL heap
RECURSIVE TrueHeight(_, _)
TrueHeight(heap, n) ==
    IF n = NULL THEN 0
    ELSE 1 + Max(TrueHeight(heap, heap[n].left),
                 TrueHeight(heap, heap[n].right))

\* ------------------------------------------------------------------------
\* Properties
\* ------------------------------------------------------------------------

\* C1: after any sequence of inserts and deletes, in each of the three trees
\* every node's key is strictly greater than every key of its left subtree
\* and strictly less than every key of its right subtree, the keys are
\* lower-case, and the tree's own in-order traversal (bst_inorder,
\* avl_inorder, tbt_inorder) yields strictly ascending keys.
C1_SearchOrder ==
    /\ SearchOrdered(bst_heap, g_bst_root)
    /\ SearchOrdered(avl_heap, g_avl_root)
    /\ TbtSearchOrdered
    /\ StrictlyAscending(KeySeq(bst_heap, bst_inorder(BST).out))
    /\ StrictlyAscending(KeySeq(avl_heap, avl_inorder(AVL)))
    /\ StrictlyAscending(KeySeq(tbt_heap, tbt_inorder(tbt_heap, g_tbt_header)))

\* C1 witness: a delete has just removed a key whose node had two children
\* in the Unbalanced and in the Balanced tree, and keys remain on both sides
C1_Witness ==
    /\ last.op = "delete"
    /\ last.bst_case = "two"
    /\ last.avl_case = "two"
    /\ last.found.tbt
    /\ ChildCase(bst_heap, g_bst_root) = "two"
    /\ Len(TbtNodes) >= 3

\* C2: after every avl_insert and avl_delete, at every node of the Balanced
\* tree the true heights of the two subtrees differ by at most 1.
C2_AvlBalanced ==
    \A n \in SeqRange(Inorder(avl_heap, g_avl_root)) :
        Abs(TrueHeight(avl_heap, avl_heap[n].left)
            - TrueHeight(avl_heap, avl_heap[n].right)) <= 1

\* C2 witness: a two-children delete in the Balanced tree after which a
\* rotation was needed on the way back up
C2_Witness ==
    /\ last.op = "delete"
    /\ last.avl_case = "two"
    /\ last.avl_rotated

\* the in-order neighbours of the data node n of the Threaded tree, the
\* header standing for "none"
TbtPos(n) == CHOOSE i \in 1..Len(TbtNodes) : TbtNodes[i] = n
TbtPredecessor(n) ==
    IF TbtPos(n) = 1 THEN g_tbt_header ELSE TbtNodes[TbtPos(n) - 1]
TbtSuccessor(n) ==
    IF TbtPos(n) = Len(TbtNodes) THEN g_tbt_header ELSE TbtNodes[TbtPos(n) + 1]

\* C3: in every reachable state of the Threaded tree, a data node whose
\* lthread is 1 has left pointing to its in-order predecessor (the header
\* for the smallest key), a data node whose rthread is 1 has right pointing
\* to its in-order successor (the header for the largest key), and no data
\* node has a NULL left or right pointer.
C3_Threads ==
    /\ SeqRange(TbtNodes) = (DOMAIN tbt_heap) \ {g_tbt_header}
    /\ \A n \in SeqRange(TbtNodes) :
        /\ tbt_heap[n].left # NULL
        /\ tbt_heap[n].right # NULL
        /\ tbt_heap[n].lthread = 1 => tbt_heap[n].left = TbtPredecessor(n)
        /\ tbt_heap[n].rthread = 1 => tbt_heap[n].right = TbtSuccessor(n)

\* C3 witness: an insert has just added a node below a data node, and the
\* tree has a left thread and a right thread that lead to data nodes
C3_Witness ==
    /\ last.op = "insert"
    /\ ~last.found.tbt
    /\ Len(TbtNodes) >= 3
    /\ \E n \in SeqRange(TbtNodes) :
        tbt_heap[n].lthread = 1 /\ tbt_heap[n].left # g_tbt_header
    /\ \E n \in SeqRange(TbtNodes) :
        tbt_heap[n].rthread = 1 /\ tbt_heap[n].right # g_tbt_header

\* the walk of C4: from cur, tbt_inorder_successor applied until the header
\* is reached, for at most fuel steps
RECURSIVE SuccessorWalk(_, _, _)
SuccessorWalk(cur, out, fuel) ==
    IF cur = g_tbt_header \/ fuel = 0 THEN [nodes |-> out, end |-> cur]
    ELSE SuccessorWalk(tbt_inorder_successor(tbt_heap, cur),
                       Append(out, cur), fuel - 1)

LeftmostWalk ==
    SuccessorWalk(tbt_leftmost(tbt_heap, tbt_heap[g_tbt_header].left), <<>>,
                  Cardinality(DOMAIN tbt_heap) + 1)

Distinct(q) == \A i, j \in 1..Len(q) : i # j => q[i] # q[j]

WalkAgrees(w) ==
    /\ w.end = g_tbt_header
    /\ Len(w.nodes) = tbt_count(tbt_heap, g_tbt_header)
    /\ Distinct(w.nodes)
    /\ KeySeq(tbt_heap, w.nodes)
           = KeySeq(bst_heap, Inorder(bst_heap, g_bst_root))

\* C4: in every non-empty Threaded tree, the walk that starts at the
\* leftmost data node and applies tbt_inorder_successor reaches the header
\* after exactly tbt_count(header) steps, visits no node twice, and visits
\* the keys in the in-order key sequence of the Unbalanced tree that was
\* given the same records in the same order.
C4_SuccessorWalk == TbtRoot # NULL => WalkAgrees(LeftmostWalk)

\* C4 witness: an insert has just added a node, and some data node has a
\* real right child that has a real left child, so that its successor is
\* found by descending
C4_Witness ==
    /\ last.op = "insert"
    /\ ~last.found.tbt
    /\ \E n \in SeqRange(TbtNodes) :
        /\ tbt_heap[n].rthread = 0
        /\ tbt_heap[tbt_heap[n].right].lthread = 0

\* C5: bst_count, avl_count and tbt_count each return the number of distinct
\* lower-cased keys inserted (and not deleted since); keys that differ only
\* in letter case are counted once.
C5_Counts ==
    /\ bst_count(BST) = Cardinality(stored)
    /\ avl_count(AVL) = Cardinality(stored)
    /\ tbt_count(tbt_heap, g_tbt_header) = Cardinality(stored)

\* C5 witness: the key apple was inserted as "apple", and an insert of
\* "Apple" has just followed
C5_Witness ==
    /\ last.op = "insert"
    /\ last.cased
    /\ last.found.bst /\ last.found.avl /\ last.found.tbt
    /\ \E n \in DOMAIN bst_heap : bst_heap[n].data.meaning = "a fruit"
    /\ Cardinality(stored) >= 2

\* a word with its lower-case ASCII letters replaced by upper-case ones
Upper(w) == [i \in 1..Len(w) |-> IF w[i] \in 97..122 THEN w[i] - 32 ELSE w[i]]

\* a word as typed, in lower case and in upper case
LetterCases(w) == {w, Lower(w), Upper(w)}

\* C6: in each tree, after an insert of a record whose key the tree did not
\* hold, a search of the key in any letter case returns a node whose record
\* is the inserted one with its key lower-cased; after a delete of that key
\* right after the insert, a search of the key returns NULL.
C6_RoundTrip ==
    /\ (last.op = "insert" /\ ~last.found.bst) =>
           \A v \in LetterCases(last.word) :
               /\ bst_search(BST, v) # NULL
               /\ bst_heap[bst_search(BST, v)].data
                      = [last.rec EXCEPT !.word = Lower(last.rec.word)]
    /\ (last.op = "insert" /\ ~last.found.avl) =>
           \A v \in LetterCases(last.word) :
               /\ avl_search(AVL, v) # NULL
               /\ avl_heap[avl_search(AVL, v)].data
                      = [last.rec EXCEPT !.word = Lower(last.rec.word)]
    /\ (last.op = "insert" /\ ~last.found.tbt) =>
           \A v \in LetterCases(last.word) :
               /\ tbt_search(tbt_heap, g_tbt_header, v) # NULL
               /\ tbt_heap[tbt_search(tbt_heap, g_tbt_header, v)].data
                      = [last.rec EXCEPT !.word = Lower(last.rec.word)]
    /\ (last.op = "delete" /\ last.undo) =>
           \A v \in LetterCases(last.word) :
               /\ bst_search(BST, v) = NULL
               /\ avl_search(AVL, v) = NULL
               /\ tbt_search(tbt_heap, g_tbt_header, v) = NULL

\* C6 witness: "APPLE" has just been deleted right after the insert that
\* brought the key apple in, and other keys remain
C6_Witness ==
    /\ last.op = "delete"
    /\ last.undo
    /\ last.word = w_APPLE
    /\ stored # {}

\* the records a tree holds
BstRecords == RecordsOf(bst_heap, Inorder(bst_heap, g_bst_root))
AvlRecords == RecordsOf(avl_heap, Inorder(avl_heap, g_avl_root))
TbtRecords == RecordsOf(tbt_heap, TbtNodes)
BstSize == Len(Inorder(bst_heap, g_bst_root))
AvlSize == Len(Inorder(avl_heap, g_avl_root))
TbtSize == Len(TbtNodes)

\* records is a set of records with the key k among them, and what is left
\* of it is the same set without the record of k, in one node less
Removed(k, records, size, left, leftsize) ==
    /\ \E r \in records : r.word = k
    /\ left = {r \in records : r.word # k}
    /\ leftsize = size - 1
    /\ Cardinality(left) = leftsize

\* C7: in each tree, a delete of a stored key k leaves the records of the
\* tree minus exactly the record of k, one per node, every other key with
\* the record it had.
C7_DeleteExact ==
    [][ (last'.op = "delete" /\ stored' # stored) =>
            /\ Removed(Lower(last'.word), BstRecords, BstSize,
                       BstRecords', BstSize')
            /\ Removed(Lower(last'.word), AvlRecords, AvlSize,
                       AvlRecords', AvlSize')
            /\ Removed(Lower(last'.word), TbtRecords, TbtSize,
                       TbtRecords', TbtSize') ]_vars

\* C7 witness: a delete has just removed a key whose node had two children
\* in the Unbalanced and the Balanced tree, and tbt_delete has freed and
\* rebuilt a tree of at least three nodes
C7_Witness ==
    /\ last.op = "delete"
    /\ last.bst_case = "two"
    /\ last.avl_case = "two"
    /\ last.tbt_freed >= 3
    /\ Cardinality(stored) >= 2

\* C8: an insert of a record whose lower-cased key is already stored leaves
\* the three trees as they were: nodes, links, thread flags, heights and
\* records.
C8_DuplicateInsert ==
    [][ (last'.op = "insert" /\ stored' = stored) =>
            UNCHANGED <<g_bst_root, bst_heap, g_avl_root, avl_heap,
                        g_tbt_header, tbt_heap>> ]_vars

\* C8 witness: "Apple" (a company) has just been inserted into trees of at
\* least three keys that hold apple (a fruit)
C8_Witness ==
    /\ last.op = "insert"
    /\ last.cased
    /\ last.found.bst /\ last.found.avl /\ last.found.tbt
    /\ \E n \in DOMAIN avl_heap :
        /\ avl_heap[n].data.word = w_apple
        /\ avl_heap[n].data.meaning = "a fruit"
    /\ \E n \in DOMAIN tbt_heap :
        /\ tbt_heap[n].data.word = w_apple
        /\ tbt_heap[n].data.meaning = "a fruit"
    /\ Cardinality(stored) >= 3

\* C9: a delete of a key that is not stored, on an empty tree included,
\* leaves the three trees as they were, and tbt_delete frees no node.
C9_AbsentDelete ==
    [][ (last'.op = "delete" /\ stored' = stored) =>
            /\ UNCHANGED <<g_bst_root, bst_heap, g_avl_root, avl_heap,
                           g_tbt_header, tbt_heap>>
            /\ last'.tbt_freed = 0 ]_vars

\* C9 witness: a delete of a key that no tree held has just run on trees of
\* at least three keys
C9_Witness ==
    /\ last.op = "delete"
    /\ ~last.found.bst /\ ~last.found.avl /\ ~last.found.tbt
    /\ last.tbt_freed = 0
    /\ Cardinality(stored) >= 3

\* the composite score of a record, as a number
Score(r) == r.frequency_score + 10 * r.user_select_count

StartsWith(w, p) == Len(w) >= Len(p) /\ SubSeq(w, 1, Len(p)) = p

\* the stored records whose key starts with the lower-cased prefix of the
\* last query, in the tree the query ran on
Matching ==
    LET records == IF ac.tree = "bst" THEN BstRecords
                   ELSE IF ac.tree = "avl" THEN AvlRecords
                   ELSE TbtRecords
    IN  {r \in records : StartsWith(r.word, Lower(ac.prefix))}

Returned == {ac.results[i] : i \in 1..Len(ac.results)}

\* the last query returned min(top_k, m) of the m records of M, each once,
\* in non-increasing order of score, and left out none that scores higher
\* than one it returned
RankedTopOf(M) ==
    /\ ac.ret = Min(ac.top_k, Cardinality(M))
    /\ Len(ac.results) = ac.ret
    /\ Returned \subseteq M
    /\ Cardinality(Returned) = ac.ret
    /\ \A i \in 1..(ac.ret - 1) :
           Score(ac.results[i]) >= Score(ac.results[i + 1])
    /\ \A q \in Returned : \A r \in M \ Returned : Score(r) <= Score(q)

\* the ranking example: apple=95, app=10, application=50, banana=80, the
\* prefix "app" and top_k = 2 give apple, then application
ExampleRanked ==
    (/\ stored = {w_apple, w_app, w_application, w_banana}
     /\ {<<r.word, Score(r)>> : r \in BstRecords}
            = {<<w_apple, 95>>, <<w_app, 10>>, <<w_application, 50>>,
               <<w_banana, 80>>}
     /\ ac.prefix = w_app
     /\ ac.top_k = 2)
    => [i \in 1..Len(ac.results) |-> ac.results[i].word]
           = <<w_apple, w_application>>

\* C10 (as amended): when at most MAX_CANDIDATES stored keys start with the
\* lower-cased non-empty prefix, each of autocomplete_bst, autocomplete_avl
\* and autocomplete_tbt returns exactly min(top_k, m) of the m matching
\* records, in non-increasing order of composite score, and no matching
\* record left out has a strictly higher composite score than a returned
\* one; the example gives apple, then application.
C10_RankedWithinCeiling ==
    (/\ ac.tree # "none"
     /\ Lower(ac.prefix) # <<>>
     /\ Cardinality(Matching) <= MAX_CANDIDATES) =>
        RankedTopOf(Matching) /\ ExampleRanked

\* C10 witness: a query on the Threaded tree for which exactly
\* MAX_CANDIDATES keys match has returned TOP_K_DEFAULT records that do not
\* all have the same score
C10_Witness ==
    /\ ac.tree = "tbt"
    /\ Cardinality(Matching) = MAX_CANDIDATES
    /\ ac.top_k = TOP_K_DEFAULT
    /\ ac.ret = TOP_K_DEFAULT
    /\ Score(ac.results[1]) > Score(ac.results[ac.ret])

\* C10 as stated, for any tree contents: every query with a non-empty prefix
\* returns min(top_k, m) records ranked as above (violated when more than
\* MAX_CANDIDATES keys match)
C10_RankedAnyContents ==
    (ac.tree # "none" /\ Lower(ac.prefix) # <<>>) =>
        RankedTopOf(Matching) /\ ExampleRanked

\* the heap after differs from the heap before in one thing: the
\* user_select_count of the nodes in holders is one higher
CountedOnce(before, after, holders) ==
    /\ DOMAIN after = DOMAIN before
    /\ \A n \in DOMAIN before :
           /\ after[n].left = before[n].left
           /\ after[n].right = before[n].right
           /\ after[n].data.user_select_count
                  = before[n].data.user_select_count
                        + (IF n \in holders THEN 1 ELSE 0)
           /\ [after[n] EXCEPT !.data.user_select_count = 0]
                  = [before[n] EXCEPT !.data.user_select_count = 0]

\* the nodes of a heap whose key is the lower-cased word
Holders(heap, nodes, word) ==
    {n \in nodes : heap[n].data.word = Lower(word)}

\* a step that is a call of autocomplete_record_selection(last'.word, ...)
SelectionStep == last'.op = "select" /\ ac'.tree = "none"

\* the step changes the count of the key's node in each tree that holds the
\* key, and nothing else
SelectionFrame ==
    /\ g_bst_root' = g_bst_root
    /\ g_avl_root' = g_avl_root
    /\ g_tbt_header' = g_tbt_header
    /\ stored' = stored
    /\ CountedOnce(bst_heap, bst_heap',
                   Holders(bst_heap, DOMAIN bst_heap, last'.word))
    /\ CountedOnce(avl_heap, avl_heap',
                   Holders(avl_heap, DOMAIN avl_heap, last'.word))
    /\ CountedOnce(tbt_heap, tbt_heap',
                   Holders(tbt_heap, DOMAIN tbt_heap \ {g_tbt_header},
                           last'.word))
    /\ \A n \in Holders(bst_heap, DOMAIN bst_heap, last'.word) :
           composite_score(bst_heap'[n].data)
               = composite_score(bst_heap[n].data) + 10

\* every stored record, loaded with a count of 0, scores its frequency_score
\* plus 10 for each pick of its key
ScoresFollowPicks ==
    \A r \in BstRecords \cup AvlRecords \cup TbtRecords :
        /\ r.user_select_count = Picks(r.word)
        /\ composite_score(r) = r.frequency_score + 10 * Picks(r.word)

PickScore(r) == r.frequency_score + 10 * Picks(r.word)

\* a query ranks by the scores that the picks have made: apple=95 picked
\* three times scores 125 and comes before application=50 and app=10
RankedByPicks ==
    ac.tree # "none" =>
        /\ Len(ac.results) = Min(ac.top_k, Cardinality(Matching))
        /\ Returned \subseteq Matching
        /\ \A i \in 1..(Len(ac.results) - 1) :
               PickScore(ac.results[i]) >= PickScore(ac.results[i + 1])
        /\ (ac.prefix = w_app /\ Picks(w_apple) = 3
                /\ Picks(w_application) = 0) =>
               /\ [i \in 1..Len(ac.results) |-> ac.results[i].word]
                      = <<w_apple, w_application, w_app>>
               /\ composite_score(ac.results[1]) = 125

\* C11: autocomplete_record_selection(k, bst, avl, tbt) raises
\* user_select_count by exactly 1 on the node that holds the lower-cased k in
\* every tree that holds it, leaves a tree without k as it was and changes
\* nothing else; after m picks the record scores frequency_score + 10 * m,
\* and a later query ranks by that score (apple=95 picked 3 times scores 125,
\* above application=50 and app=10).
C11_SelectionCounts ==
    [][ /\ SelectionStep => SelectionFrame
        /\ ScoresFollowPicks'
        /\ RankedByPicks' ]_vars

\* C11 witness: apple has been picked three times, once as "APPLE", in a
\* dictionary that holds it, ant once or more in a dictionary that lacks it,
\* and a query for "app" has returned apple first with a score of 125
C11_Witness ==
    /\ ac.tree = "avl"
    /\ ac.prefix = w_app
    /\ last.op = "select"
    /\ last.word = w_APPLE
    /\ Picks(w_apple) = 3
    /\ Picks(w_ant) >= 1
    /\ w_ant \notin stored
    /\ ac.ret = 3
    /\ ac.results[1].word = w_apple
    /\ composite_score(ac.results[1]) = 125

\* the tree the last query ran on holds no record
QueriedTreeEmpty ==
    IF ac.tree = "bst" THEN g_bst_root = NULL
    ELSE IF ac.tree = "avl" THEN g_avl_root = NULL
    ELSE TbtRoot = NULL

\* C12: a query of autocomplete_bst, autocomplete_avl or autocomplete_tbt
\* with the empty prefix, or on a tree that holds no record, returns 0 and
\* writes nothing to the results array.
C12_EmptyYieldsNothing ==
    (ac.tree # "none" /\ (Lower(ac.prefix) = <<>> \/ QueriedTreeEmpty)) =>
        ac.ret = 0 /\ ac.results = <<>>

\* the records of the tree the last query ran on, in ascending key order
RecordSeq(heap, nodes) == [i \in 1..Len(nodes) |-> heap[nodes[i]].data]

QueriedInOrder ==
    IF ac.tree = "bst" THEN RecordSeq(bst_heap, Inorder(bst_heap, g_bst_root))
    ELSE IF ac.tree = "avl"
    THEN RecordSeq(avl_heap, Inorder(avl_heap, g_avl_root))
    ELSE RecordSeq(tbt_heap, TbtNodes)

\* those of them whose key starts with the lower-cased prefix
MatchesPrefix(r) == StartsWith(r.word, Lower(ac.prefix))
MatchingInOrder == SelectSeq(QueriedInOrder, MatchesPrefix)

\* C13: for a non-empty prefix that at most MAX_CANDIDATES stored keys
\* match, bst_collect, avl_collect and the lower-bound descent and successor
\* walk of autocomplete_tbt collect the same candidates: exactly the stored
\* records whose key starts with the lower-cased prefix, each once, in
\* ascending key order.
SameCandidates(matching) ==
    (/\ ac.tree # "none"
     /\ Lower(ac.prefix) # <<>>
     /\ Len(matching) <= MAX_CANDIDATES) =>
        /\ ac.candidates = matching
        /\ StrictlyAscending([i \in 1..Len(ac.candidates) |->
                                  ac.candidates[i].word])

C13_SameCandidates == SameCandidates(MatchingInOrder)

\* C13 witness: a query on the Threaded tree has collected some but not all
\* of the stored records, the first of them not being the smallest key and
\* the last not the largest
CollectedInside(records) ==
    /\ ac.tree = "tbt"
    /\ Len(ac.candidates) >= 2
    /\ Len(records) > Len(ac.candidates) + 1
    /\ ~MatchesPrefix(records[1])
    /\ ~MatchesPrefix(records[Len(records)])

C13_Witness == CollectedInside(QueriedInOrder)

Candidates == {ac.candidates[i] : i \in 1..Len(ac.candidates)}

\* C14: when more than MAX_CANDIDATES stored keys match a non-empty prefix,
\* each variant collects exactly MAX_CANDIDATES candidates, the smallest
\* matching keys in ascending order, and returns min(top_k, MAX_CANDIDATES)
\* records ranked among those candidates only.
Truncated(matching) ==
    (/\ ac.tree # "none"
     /\ Lower(ac.prefix) # <<>>
     /\ Len(matching) > MAX_CANDIDATES) =>
        /\ Len(ac.candidates) = MAX_CANDIDATES
        /\ ac.candidates = SubSeq(matching, 1, MAX_CANDIDATES)
        /\ RankedTopOf(Candidates)

RECURSIVE MinNodes(_)
MinNodes(h) ==
    IF h = 0 THEN 0
    ELSE IF h = 1 THEN 1
    ELSE MinNodes(h - 1) + MinNodes(h - 2) + 1

\* floor(log2(m)) for m >= 1
RECURSIVE Log2Floor(_)
Log2Floor(m) == IF m < 2 THEN 0 ELSE 1 + Log2Floor(m \div 2)

RECURSIVE Pow2(_)
Pow2(k) == IF k = 0 THEN 1 ELSE 2 * Pow2(k - 1)

\* the fraction bits of log2, by repeated squaring of y / 2^14 in [1, 2):
\* a lower bound of the fraction, in units of 2^-bits
RECURSIVE Log2Frac(_, _)
Log2Frac(y, bits) ==
    IF bits = 0 THEN 0
    ELSE LET y2 == (y * y) \div Pow2(14)
         IN  IF y2 >= Pow2(15)
             THEN Pow2(bits - 1) + Log2Frac(y2 \div 2, bits - 1)
             ELSE Log2Frac(y2, bits - 1)

\* a lower bound of 1024 * log2(m), within 2 of it, for 1 <= m < 2^16
Log2x1024(m) ==
    1024 * Log2Floor(m)
        + Log2Frac((m * Pow2(14)) \div Pow2(Log2Floor(m)), 10)

\* C15: after every avl_insert and avl_delete the height h of the Balanced
\* tree of n keys satisfies h <= 1.45 * log2(n + 2); equivalently n >= N(h)
\* with N(h) = N(h-1) + N(h-2) + 1, N(0) = 0, N(1) = 1.  h is the true
\* height, which the height stored at the root equals.
C15_AvlHeightBound ==
    /\ avl_height(avl_heap, g_avl_root) = TrueHeight(avl_heap, g_avl_root)
    /\ AvlSize >= MinNodes(TrueHeight(avl_heap, g_avl_root))
    /\ 100 * 1024 * TrueHeight(avl_heap, g_avl_root)
           <= 145 * Log2x1024(AvlSize + 2)

\* C15 witness: a delete has just taken a key out of a Balanced tree that
\* still holds 14 keys or more and is 5 high
C15_Witness ==
    /\ last.op = "delete"
    /\ last.found.avl
    /\ AvlSize >= 14
    /\ TrueHeight(avl_heap, g_avl_root) = 5

\* the data nodes of the Threaded tree: the live nodes other than the header
TbtDataNodes == (DOMAIN tbt_heap) \ {g_tbt_header}

\* the data nodes that are the child of no data node
TbtRoots ==
    {n \in TbtDataNodes :
        \A m \in TbtDataNodes :
            /\ ~(tbt_heap[m].lthread = 0 /\ tbt_heap[m].left = n)
            /\ ~(tbt_heap[m].rthread = 0 /\ tbt_heap[m].right = n)}

\* C16: the header's right link is a thread to the header itself; its left
\* link is a child link to the root when the tree holds a key and a thread to
\* the header itself when it holds none, after the delete of the last key
\* too; tbt_inorder never passes the header to the callback and tbt_count
\* never counts it.
C16_HeaderSentinel ==
    /\ g_tbt_header \in DOMAIN tbt_heap
    /\ tbt_heap[g_tbt_header].right = g_tbt_header
    /\ tbt_heap[g_tbt_header].rthread = 1
    /\ IF stored = {}
       THEN /\ TbtDataNodes = {}
            /\ tbt_heap[g_tbt_header].left = g_tbt_header
            /\ tbt_heap[g_tbt_header].lthread = 1
       ELSE /\ tbt_heap[g_tbt_header].lthread = 0
            /\ TbtRoots = {tbt_heap[g_tbt_header].left}
    /\ g_tbt_header \notin SeqRange(tbt_inorder(tbt_heap, g_tbt_header))
    /\ SeqRange(tbt_inorder(tbt_heap, g_tbt_header)) = TbtDataNodes
    /\ tbt_count(tbt_heap, g_tbt_header) = Cardinality(TbtDataNodes)

\* C16 witness: the delete of the last key has just emptied the Threaded
\* tree
C16_Witness ==
    /\ last.op = "delete"
    /\ last.found.tbt
    /\ last.tbt_freed = 1
    /\ stored = {}
    /\ tbt_heap[g_tbt_header].lthread = 1

\* the Threaded tree holds the key of the word that the step deletes
TbtHolds(word) ==
    \E n \in TbtDataNodes : tbt_heap[n].data.word = Lower(word)

\* a run of frees that read no freed node and freed no node twice
CleanRun(r) == ~r.stale /\ ~r.again

\* a step of tbt_delete: when the tree holds the key, tbt_free_nodes frees
\* each data node once and the header stays; otherwise nothing is freed
TbtDeleteFrees ==
    /\ CleanRun(last'.runs.tbt)
    /\ ~last'.runs.tbt.header
    /\ g_tbt_header' # NULL
    /\ g_tbt_header' \in DOMAIN tbt_heap'
    /\ last'.runs.tbt.freed
           = (IF last'.word # <<>> /\ TbtHolds(last'.word)
              THEN Cardinality(TbtDataNodes) ELSE 0)

\* a step of tbt_free (on a reload of a dictionary that holds words): each
\* data node is freed once, and the header once
TbtFreeFrees ==
    /\ CleanRun(last'.runs.tbt)
    /\ last'.runs.tbt.header = (TbtDataNodes # {})
    /\ last'.runs.tbt.freed
           = (IF TbtDataNodes # {} THEN Cardinality(TbtDataNodes) + 1 ELSE 0)

\* C17: tbt_free_nodes reads the successor of each node before it frees the
\* node, never reads a freed node and frees every data node exactly once;
\* tbt_delete never frees the header, only tbt_free does.
C17_TbtFrees ==
    [][ /\ last'.op = "delete" => TbtDeleteFrees
        /\ last'.op = "reload" => TbtFreeFrees
        /\ last'.op = "insert" => last'.runs.tbt = NoRun ]_vars

\* C17 witness: a delete has freed the 16 data nodes of the Threaded tree
\* and rebuilt it with 15
C17_Witness ==
    /\ last.op = "delete"
    /\ last.runs.tbt.freed = 16
    /\ ~last.runs.tbt.stale
    /\ Cardinality(TbtDataNodes) = 15

\* every node of a BST/AVL heap can be reached from the root, and every link
\* of a node is NULL or a live node
AllReachable(heap, root) ==
    /\ root \in (DOMAIN heap) \cup {NULL}
    /\ \A n \in DOMAIN heap :
           /\ heap[n].left \in (DOMAIN heap) \cup {NULL}
           /\ heap[n].right \in (DOMAIN heap) \cup {NULL}
    /\ SeqRange(Inorder(heap, root)) = DOMAIN heap
    /\ Len(Inorder(heap, root)) = Cardinality(DOMAIN heap)

\* a heap holds the key of word
Holds(heap, word) == \E n \in DOMAIN heap : heap[n].data.word = Lower(word)

\* a delete takes one node out of a heap that holds the key and leaves a
\* heap that does not hold it as it is
DeleteFreesOne(before, after, word) ==
    IF word # <<>> /\ Holds(before, word)
    THEN /\ Cardinality(DOMAIN after) = Cardinality(DOMAIN before) - 1
         /\ ~Holds(after, word)
    ELSE after = before

\* a run of bst_free or avl_free over a heap: each of its nodes freed once
FreesAll(r, heap) ==
    /\ CleanRun(r)
    /\ ~r.header
    /\ r.freed = Cardinality(DOMAIN heap)

\* after the frees of a reload the heaps hold the nodes of the file's keys
\* and no others: none when the file is empty, the roots being NULL
ReloadedOnly ==
    /\ Cardinality(DOMAIN bst_heap') = Cardinality(stored')
    /\ Cardinality(DOMAIN avl_heap') = Cardinality(stored')
    /\ stored' = {} => g_bst_root' = NULL /\ g_avl_root' = NULL

\* C18: in the Unbalanced and the Balanced tree a delete of a stored key frees
\* exactly one node, which cannot be reached afterwards; no node that can be
\* reached is freed and none is freed twice; after bst_free and avl_free
\* every node has been freed and the root is NULL; the nodes allocated and
\* not freed are as many as count() reports.
C18_NodeLifetime ==
    [][ /\ last'.op = "delete" =>
               /\ DeleteFreesOne(bst_heap, bst_heap', last'.word)
               /\ DeleteFreesOne(avl_heap, avl_heap', last'.word)
               /\ last'.runs.bst = NoRun /\ last'.runs.avl = NoRun
        /\ last'.op = "reload" =>
               /\ FreesAll(last'.runs.bst, bst_heap)
               /\ FreesAll(last'.runs.avl, avl_heap)
               /\ ReloadedOnly
        /\ AllReachable(bst_heap', g_bst_root')
        /\ AllReachable(avl_heap', g_avl_root')
        /\ bst_count(BST') = Cardinality(DOMAIN bst_heap')
        /\ avl_count(AVL') = Cardinality(DOMAIN avl_heap') ]_vars

\* C18 witness: a reload with an empty file has freed the 16 nodes of each
\* tree and left the roots NULL
C18_Witness ==
    /\ last.op = "reload"
    /\ last.runs.bst.freed = 16
    /\ last.runs.avl.freed = 16
    /\ g_bst_root = NULL /\ g_avl_root = NULL
    /\ bst_heap = <<>> /\ avl_heap = <<>>

\* C19: when the allocation of a node fails during an insert into any of the
\* three trees the program terminates abruptly; no insert returns normally
\* after it has dropped the record.  (Violated: bst_insert returns.)
C19_AllocationFailureFatal == last.nomem # {} => last.op = "exit"

\* the trees are as they were before the step
TreesUnchanged ==
    UNCHANGED <<g_bst_root, bst_heap, g_avl_root, avl_heap, g_tbt_header,
                tbt_heap>>

\* C20: an empty key makes every operation of each tree that takes a key a
\* no-op: an insert of a record whose key is empty leaves count and structure
\* as they were, a search for "" finds nothing and a delete of "" changes
\* nothing.  (Violated: the inserts store the record with the empty key.)
C20_EmptyKeyNoOp ==
    [][ last'.empty =>
            /\ TreesUnchanged
            /\ ~last'.found.bst /\ ~last'.found.avl /\ ~last'.found.tbt ]_vars

\* the shape of an Unbalanced or Balanced tree: each key with the keys of
\* its left and right child (the empty string where there is none)
KeyAt(heap, n) == IF n = NULL THEN <<>> ELSE heap[n].data.word

Shape(heap) ==
    {<<heap[n].data.word, KeyAt(heap, heap[n].left), KeyAt(heap, heap[n].right)>> :
        n \in DOMAIN heap}

\* C21: the Unbalanced tree that the next run rebuilds from the file written
\* by save_custom_words has the shape of the tree saved (every key with the
\* same left and right child, hence the same parent) and its height.
C21_SaveKeepsShape ==
    [][last'.op = "restart" =>
          /\ Shape(bst_heap') = Shape(bst_heap)
          /\ TrueHeight(bst_heap', g_bst_root')
                 = TrueHeight(bst_heap, g_bst_root)]_vars

\* C22: the value that load_words returns is the number of records that the
\* call added to the Unbalanced tree.
C22_ReturnsAdded ==
    last.op \in {"load", "reload", "restart"} => last.ret = last.added

\* C23: after every avl_insert and avl_delete the height stored in each node
\* of the Balanced tree is the true height of the node's subtree (1 for a
\* leaf, 0 for a missing child), the nodes re-linked by rotations included,
\* so avl_height of the root is the true height of the tree.
C23_StoredHeights ==
    /\ \A n \in DOMAIN avl_heap :
           /\ avl_heap[n].height = TrueHeight(avl_heap, n)
           /\ avl_height(avl_heap, n) = TrueHeight(avl_heap, n)
    /\ avl_height(avl_heap, NULL) = 0
    /\ avl_height(avl_heap, g_avl_root) = TrueHeight(avl_heap, g_avl_root)

\* C23 witness: a file of sixteen keys or more has just been loaded, the
\* inserts have rotated the Balanced tree (it is lower than the Unbalanced
\* tree built of the same lines) and one of its nodes leans to the left
C23_Witness ==
    /\ last.op = "reload"
    /\ AvlSize >= 16
    /\ avl_height(avl_heap, g_avl_root) < TrueHeight(bst_heap, g_bst_root)
    /\ \E n \in DOMAIN avl_heap :
           /\ avl_heap[n].left # NULL /\ avl_heap[n].right # NULL
           /\ avl_heap[n].height = 1 + avl_heap[avl_heap[n].left].height
           /\ avl_heap[avl_heap[n].left].height
                  > avl_heap[avl_heap[n].right].height

\* the records of the three trees in ascending key order, read off the links
BstRecordSeq == RecordSeq(bst_heap, Inorder(bst_heap, g_bst_root))
AvlRecordSeq == RecordSeq(avl_heap, Inorder(avl_heap, g_avl_root))
TbtRecordSeq == RecordSeq(tbt_heap, TbtNodes)

KeyAfter(heap, root, k) ==
    LET keys == KeySeq(heap, Inorder(heap, root))
    IN  {keys[i] : i \in {j \in 1..Len(keys) :
                            /\ LexLess(k, keys[j])
                            /\ \A m \in 1..(j - 1) : ~LexLess(k, keys[m])}}

\* the handles that a delete of the key k makes invalid in an Unbalanced or
\* Balanced tree: none if k was not stored; that of k; and, if the node of k
\* had two children, that of the key after k, whose record has moved into
\* the node of k and whose own node is freed
DeleteInvalidates(found, case, heap, root, k) ==
    IF ~found THEN {}
    ELSE IF case = "two" THEN {k} \cup KeyAfter(heap, root, k)
    ELSE {k}

\* C27 as amended: a handle returned by search(k) keeps pointing to a live
\* node that holds the record of k across inserts, selections and deletes
\* that find no key.  A delete that removes another key can invalidate it:
\* in the Unbalanced and the Balanced tree the handle of the in-order
\* successor of a deleted key that had two children (and no other), in the
\* Threaded tree the handle of every key.
C27_HandlesOutliveInserts ==
    LET k == Lower(last.word) IN
    /\ last.op \in {"insert", "select"} =>
           last.stale = [bst |-> {}, avl |-> {}, tbt |-> {}]
    /\ last.op = "delete" =>
           /\ last.stale.bst = DeleteInvalidates(last.found.bst, last.bst_case,
                                                 bst_heap, g_bst_root, k)
           /\ last.stale.avl = DeleteInvalidates(last.found.avl, last.avl_case,
                                                 avl_heap, g_avl_root, k)
           /\ last.stale.tbt = IF last.found.tbt
                                THEN {k} \cup KeysOf(tbt_heap, TbtNodes)
                                ELSE {}

\* C27 witness: a delete has removed a key with two children; in the
\* Unbalanced and the Balanced tree the handles of two keys are invalid, in
\* the Threaded tree those of three keys or more
C27_Witness ==
    /\ last.op = "delete"
    /\ last.bst_case = "two" /\ last.avl_case = "two"
    /\ Cardinality(last.stale.bst) = 2
    /\ Cardinality(last.stale.avl) = 2
    /\ Cardinality(last.stale.tbt) >= 3

\* C27 as stated: a handle returned by search(k) becomes invalid only when k
\* itself is deleted; inserts, selections and deletes of other keys leave it
\* pointing to a live node that holds the record of k.
C27_HandlesOutliveOthers ==
    \A tree \in {"bst", "avl", "tbt"} :
        last.stale[tree] \subseteq
            (IF last.op = "delete" THEN {Lower(last.word)} ELSE {})

\* the number of nodes on the longest path of child links from the node n of
\* the Threaded tree down to a node without children
RECURSIVE TbtDepth(_, _)
TbtDepth(heap, n) ==
    IF n = NULL THEN 0
    ELSE 1 + Max(TbtDepth(heap, tbt_left_child(heap, n)),
                 TbtDepth(heap, tbt_right_child(heap, n)))

\* the keys of a set in ascending order
RECURSIVE AscendingKeys(_)
AscendingKeys(S) ==
    IF S = {} THEN <<>>
    ELSE LET m == CHOOSE k \in S : \A x \in S \ {k} : LexLess(k, x)
         IN  <<m>> \o AscendingKeys(S \ {m})

\* the Threaded tree is a chain of right children in ascending key order
RightChain ==
    LET keys == AscendingKeys(KeysOf(tbt_heap, TbtNodes))
        NodeOf(k) == CHOOSE n \in TbtDataNodes : tbt_heap[n].data.word = k
    IN  /\ Len(keys) = Cardinality(TbtDataNodes)
        /\ \A n \in TbtDataNodes : tbt_heap[n].lthread = 1
        /\ Len(keys) > 0 => TbtRoot = NodeOf(keys[1])
        /\ \A i \in 1..(Len(keys) - 1) :
               /\ tbt_heap[NodeOf(keys[i])].rthread = 0
               /\ tbt_heap[NodeOf(keys[i])].right = NodeOf(keys[i + 1])
        /\ Len(keys) > 0 => tbt_heap[NodeOf(keys[Len(keys)])].rthread = 1
        /\ TbtDepth(tbt_heap, TbtRoot) = tbt_count(tbt_heap, g_tbt_header)

\* C25: after tbt_delete has removed a stored key, whatever the shape of the
\* tree was, the rebuilt tree is a right-linked chain in ascending key order:
\* the root holds the smallest remaining key, every data node has lthread = 1,
\* every node but the one with the largest key has its in-order successor as
\* its real right child, and the deepest node is tbt_count(header) deep.
C25_RebuiltChain ==
    (last.op = "delete" /\ last.found.tbt) => RightChain

\* C25 witness: tbt_delete has removed a key from a tree of sixteen keys that
\* was no chain, and the fifteen that remain form a chain fifteen deep
C25_Witness ==
    /\ last.op = "delete"
    /\ last.found.tbt
    /\ last.tbt_freed = 16
    /\ last.stale.tbt # {}
    /\ TbtSize = 15
    /\ TbtDepth(tbt_heap, TbtRoot) = 15
    /\ TrueHeight(bst_heap, g_bst_root) < 15

\* the keys of the Unbalanced tree in pre-order: a node, its left subtree,
\* its right subtree
BstPreorderKeys == KeySeq(bst_heap, Preorder(bst_heap, g_bst_root))

BstInorderKeys == KeySeq(bst_heap, Inorder(bst_heap, g_bst_root))

\* C26: bst_inorder, bst_preorder and bst_count end on every tree built by
\* inserts, deletes and loads, and when they return every left and right
\* pointer is what it was before the call: no temporary thread is left.  The
\* two traversals have passed every node to the callback once, in their
\* order, and bst_count has counted every node.
C26_MorrisRestores ==
    last.op = "walk" =>
        /\ last.walk.ended
        /\ last.walk.restored
        /\ AllReachable(bst_heap, g_bst_root)
        /\ last.walk.kind = "inorder" => last.walk.visits = BstInorderKeys
        /\ last.walk.kind = "preorder" => last.walk.visits = BstPreorderKeys
        /\ last.walk.kind = "count" => last.walk.count = BstSize

\* C26 witness: bst_preorder has run on a tree of sixteen keys, threads were
\* in place during the run, and the tree is as before
C26_Witness ==
    /\ last.op = "walk"
    /\ last.walk.kind = "preorder"
    /\ Len(last.walk.visits) = 16
    /\ \E i \in 1..Len(last.walk.threads) : last.walk.threads[i] # {}
    /\ last.walk.restored

\* C28 as amended: at every call of the callback by bst_inorder and
\* bst_preorder the live nodes, the records, the left pointers and the right
\* pointers that were not NULL are what they were before the traversal; a
\* right pointer that was NULL is NULL or a temporary thread to the node's
\* in-order successor (an ancestor of the node).
C28_OnlySuccessorThreads ==
    (last.op = "walk" /\ last.walk.kind \in {"inorder", "preorder"}) =>
        /\ ~last.walk.others
        /\ \A i \in 1..Len(last.walk.threads) :
               \A th \in last.walk.threads[i] :
                   KeyAfter(bst_heap, g_bst_root, th[1]) = {th[2]}

\* C28 witness: bst_inorder has called the callback while two threads or
\* more were in place
C28_Witness ==
    /\ last.op = "walk"
    /\ last.walk.kind = "inorder"
    /\ \E i \in 1..Len(last.walk.threads) :
           Cardinality(last.walk.threads[i]) >= 2

\* C28 as stated: at every call of the callback the child links are those
\* of the tree before the traversal: no right pointer refers to an ancestor.
C28_NoThreadAtCallback ==
    (last.op = "walk" /\ last.walk.kind \in {"inorder", "preorder"}) =>
        /\ ~last.walk.others
        /\ \A i \in 1..Len(last.walk.threads) : last.walk.threads[i] = {}

\* C29: for every Unbalanced tree built by inserts, whatever its shape and
\* height, bst_height never has more than the 128 entries of its array
\* pending: top is 128 at most before every push, and no write goes beyond
\* the array.
C29_StackFits ==
    last.op = "height" =>
        /\ last.height.top <= stk_slots
        /\ ~last.height.outside

\* C30: after every handler of the window (the load at startup, insert,
\* delete, and load whether it succeeds or fails) g_word_count equals
\* bst_count(g_bst_root), which equals avl_count and tbt_count of the other
\* two trees.
C30_CountInSync ==
    /\ g_word_count = bst_count(BST)
    /\ bst_count(BST) = avl_count(AVL)
    /\ avl_count(AVL) = tbt_count(tbt_heap, g_tbt_header)

====
